---- MODULE Spec2Model ----
(***************************************************************************)
(* Reporting and metrics aggregation engine of the MSME backend            *)
(* (backend/modules/reports/utils.py, class ReportsUtils).                 *)
(*                                                                         *)
(* The data store is the collections invoices, customers and reports, each *)
(* a list of documents in insertion order.  Every calculator is a          *)
(* read-only request against the store: an action applies it to the        *)
(* current store and records the request in req and what the caller        *)
(* receives in resp.                                                       *)
(* A behaviour is one data set and one request against it (the operations  *)
(* are single-request and stateless).                                      *)
(*                                                                         *)
(* The routes that write the store (invoices/routes.py, crm/routes.py,     *)
(* reports/routes.py) are actions on the collections; their responses go   *)
(* to their own callers.  business_context_cache is the assistant's        *)
(* in-memory cache (ai_assistant/utils.py) and utcnow the clock in         *)
(* seconds.  A call whose awaits matter (get_business_context,             *)
(* get_customer_metrics among the customer writers) is a sequence of       *)
(* steps, with its position and locals in req.                             *)
(*                                                                         *)
(* Dates are day numbers (day 0 is the first day of the data set), so      *)
(* start_date + timedelta(days=1) is s + 1 and (end - start).days is       *)
(* e - s; day 0 is 2024-01-01, a Monday.  Monetary amounts are integers;   *)
(* every float the calculators derive by division is kept as an exact      *)
(* fraction <<n, d>> in lowest                                             *)
(* terms with d > 0 (binary rounding of the quotient is not modelled).     *)
(***************************************************************************)
EXTENDS Integers, Sequences, FiniteSets, TLC

VARIABLES invoices, customers, reports, business_context_cache, utcnow, req, resp

vars == <<invoices, customers, reports, business_context_cache, utcnow, req, resp>>

----------------------------------------------------------------------------
(* Bounds of the model                                                     *)

\* invoices in a data set
MaxInvoices == 3
\* last day of the data sets and of the request windows (days 0..MaxDay)
MaxDay == 2
\* customers of u1 in a customer data set
MaxCustomers == 2
\* invoices in a customer data set
MaxCustomerInvoices == 2
\* invoices in a ranking data set
MaxRanked == 6
\* the store may start raising at any query up to this one (0: never)
MaxFailAt == 2

Users == {"u1", "u2"}

----------------------------------------------------------------------------
(* Exact fractions                                                         *)

Abs(x) == IF x < 0 THEN -x ELSE x

RECURSIVE GCD(_, _)
GCD(a, b) == IF b = 0 THEN a ELSE GCD(b, a % b)

\* the fraction n/d in lowest terms, d # 0
Frac(n, d) ==
    LET g == GCD(Abs(n), Abs(d))
        sgn == IF d < 0 THEN -1 ELSE 1
    IN  <<sgn * (n \div g), sgn * (d \div g)>>

Num(n) == <<n, 1>>
FracMul(a, b) == Frac(a[1] * b[1], a[2] * b[2])
FracLeq(a, b) == a[1] * b[2] <= b[1] * a[2]
FracLt(a, b) == a[1] * b[2] < b[1] * a[2]

----------------------------------------------------------------------------
(* The store: find() with a filter, in insertion order                     *)

\* sum(inv.get("total_amount", 0) for inv in docs)
RECURSIVE SumAmount(_)
SumAmount(docs) ==
    IF docs = <<>> THEN 0
    ELSE Head(docs).total_amount + SumAmount(Tail(docs))

\* created_at within [datetime.combine(s, min.time()), datetime.combine(e, max.time())]
InWindow(doc, s, e) == doc.created_at >= s /\ doc.created_at <= e

\* variant: user_id is left out of the filter
FindInvoicesAnyUser(u, s, e) ==
    SelectSeq(invoices, LAMBDA inv : InWindow(inv, s, e))

\* db.invoices.find({"user_id": u, "created_at": {"$gte": s, "$lte": e}})
FindInvoices(u, s, e) ==
    SelectSeq(invoices, LAMBDA inv : inv.user_id = u /\ InWindow(inv, s, e))

\* variant: payment_status is left out of the filter
FindPaidInvoicesAnyStatus(u, s, e) ==
    SelectSeq(invoices, LAMBDA inv : inv.user_id = u /\ InWindow(inv, s, e))

\* db.invoices.find({"user_id": u, "payment_status": "paid", "created_at": {...}})
FindPaidInvoices(u, s, e) ==
    SelectSeq(invoices, LAMBDA inv :
        inv.user_id = u /\ inv.payment_status = "paid" /\ InWindow(inv, s, e))

\* db.invoices.find({"user_id": u, "payment_status": "paid"})
FindAllPaidInvoices(u) ==
    SelectSeq(invoices, LAMBDA inv : inv.user_id = u /\ inv.payment_status = "paid")

\* db.customers.find({"user_id": u})
FindCustomers(u) == SelectSeq(customers, LAMBDA c : c.user_id = u)

\* variant: the window is left out of the filter
FindNewCustomersAnyDay(u, s, e) == SelectSeq(customers, LAMBDA c : c.user_id = u)

\* db.customers.find({"user_id": u, "created_at": {...}})
FindNewCustomers(u, s, e) ==
    SelectSeq(customers, LAMBDA c : c.user_id = u /\ InWindow(c, s, e))

\* The store raises on the q-th query of a request when f # 0 and q >= f.
Raises(f, q) == f # 0 /\ q >= f

\* the failure point as seen by a callee that starts after n queries
Shift(f, n) == IF f = 0 THEN 0 ELSE IF f > n THEN f - n ELSE 1

----------------------------------------------------------------------------
(* Growth/trend engine                                                     *)

\* variant: a zero base reports no growth at all
CalculateGrowthRateZeroBase(u, s, e, f) ==
    LET current_value == SumAmount(FindPaidInvoices(u, s, e))
        prev_value == SumAmount(FindPaidInvoices(u, s - 1 - (e - s), s - 1))
    IN  IF Raises(f, 1) \/ Raises(f, 2) THEN Num(0)
        ELSE IF prev_value = 0 THEN Num(0)
             ELSE FracMul(Frac(current_value - prev_value, prev_value), Num(100))

\* variant: the previous window runs up to start_date itself
PreviousWindowToStart(s, e) ==
    LET period_days == e - s
        prev_end_date == s
        prev_start_date == prev_end_date - period_days
    IN  <<prev_start_date, prev_end_date>>

\* the previous period of _calculate_growth_rate, as <<prev_start_date,
\* prev_end_date>>
PreviousWindow(s, e) ==
    LET period_days == e - s
        prev_end_date == s - 1
        prev_start_date == prev_end_date - period_days
    IN  <<prev_start_date, prev_end_date>>

\* ReportsUtils._calculate_growth_rate (metric_type is read by no branch)
CalculateGrowthRate(u, s, e, f) ==
    LET prev_start_date == PreviousWindow(s, e)[1]
        prev_end_date == PreviousWindow(s, e)[2]
        current_value == SumAmount(FindPaidInvoices(u, s, e))
        prev_value == SumAmount(FindPaidInvoices(u, prev_start_date, prev_end_date))
    IN  IF Raises(f, 1) \/ Raises(f, 2) THEN Num(0)
        ELSE IF prev_value = 0
             THEN (IF current_value > 0 THEN Num(100) ELSE Num(0))
             ELSE FracMul(Frac(current_value - prev_value, prev_value), Num(100))

----------------------------------------------------------------------------
(* Financial calculator                                                    *)

\* FinancialMetrics(): every field at its default
DefaultFinancialMetrics ==
    [total_revenue |-> Num(0), total_invoices |-> 0, paid_invoices |-> 0,
     pending_invoices |-> 0, overdue_invoices |-> 0,
     average_invoice_value |-> Num(0), total_outstanding |-> Num(0),
     collection_rate |-> Num(0), growth_rate |-> Num(0), profit_margin |-> Num(0)]

\* variant: floor division
AverageInvoiceValueFloor(total_revenue, paid_invoices) ==
    IF paid_invoices > 0 THEN Num(total_revenue \div paid_invoices) ELSE Num(0)

\* total_revenue / paid_invoices if paid_invoices > 0 else 0
AverageInvoiceValue(total_revenue, paid_invoices) ==
    IF paid_invoices > 0 THEN Frac(total_revenue, paid_invoices) ELSE Num(0)

\* variant: the quotient upside down
CollectionRateInverted(paid_invoices, total_invoices) ==
    IF paid_invoices > 0
    THEN FracMul(Frac(total_invoices, paid_invoices), Num(100))
    ELSE Num(0)

\* (paid_invoices / total_invoices * 100) if total_invoices > 0 else 0
CollectionRate(paid_invoices, total_invoices) ==
    IF total_invoices > 0
    THEN FracMul(Frac(paid_invoices, total_invoices), Num(100))
    ELSE Num(0)

\* variant: only the pending invoices are outstanding
TotalOutstandingPending(found) ==
    SumAmount(SelectSeq(found, LAMBDA inv : inv.payment_status = "pending"))

\* sum(... for inv in invoices if inv.get("payment_status") != "paid")
TotalOutstanding(found) ==
    SumAmount(SelectSeq(found, LAMBDA inv : inv.payment_status # "paid"))

\* variant: no early return for a window without invoices
GetFinancialMetricsAlways(u, s, e, f) ==
    LET found == FindInvoices(u, s, e)
        paid_invoices == Len(SelectSeq(found, LAMBDA inv : inv.payment_status = "paid"))
        total_revenue ==
            SumAmount(SelectSeq(found, LAMBDA inv : inv.payment_status = "paid"))
    IN  IF Raises(f, 1) THEN DefaultFinancialMetrics
        ELSE [total_revenue |-> Num(total_revenue),
              total_invoices |-> Len(found),
              paid_invoices |-> paid_invoices,
              pending_invoices |->
                  Len(SelectSeq(found, LAMBDA inv : inv.payment_status = "pending")),
              overdue_invoices |-> Len(SelectSeq(found, LAMBDA inv : inv.status = "overdue")),
              average_invoice_value |->
                  AverageInvoiceValue(total_revenue, paid_invoices),
              total_outstanding |-> Num(TotalOutstanding(found)),
              collection_rate |-> CollectionRate(paid_invoices, Len(found)),
              growth_rate |-> CalculateGrowthRate(u, s, e, Shift(f, 1)),
              profit_margin |-> Num(85)]

\* ReportsUtils.get_financial_metrics
GetFinancialMetrics(u, s, e, f) ==
    LET found == FindInvoices(u, s, e)
        total_invoices == Len(found)
        paid_invoices == Len(SelectSeq(found, LAMBDA inv : inv.payment_status = "paid"))
        pending_invoices == Len(SelectSeq(found, LAMBDA inv : inv.payment_status = "pending"))
        overdue_invoices == Len(SelectSeq(found, LAMBDA inv : inv.status = "overdue"))
        total_revenue ==
            SumAmount(SelectSeq(found, LAMBDA inv : inv.payment_status = "paid"))
        total_outstanding == TotalOutstanding(found)
    IN  IF Raises(f, 1) THEN DefaultFinancialMetrics
        ELSE IF found = <<>> THEN DefaultFinancialMetrics
        ELSE [total_revenue |-> Num(total_revenue),
              total_invoices |-> total_invoices,
              paid_invoices |-> paid_invoices,
              pending_invoices |-> pending_invoices,
              overdue_invoices |-> overdue_invoices,
              average_invoice_value |->
                  AverageInvoiceValue(total_revenue, paid_invoices),
              total_outstanding |-> Num(total_outstanding),
              collection_rate |-> CollectionRate(paid_invoices, total_invoices),
              growth_rate |-> CalculateGrowthRate(u, s, e, Shift(f, 1)),
              profit_margin |-> Num(85)]

----------------------------------------------------------------------------
(* Sales calculator                                                        *)

IsLeap(y) == (y % 4 = 0 /\ y % 100 # 0) \/ y % 400 = 0

DaysInMonth(y, m) ==
    IF m = 2 THEN (IF IsLeap(y) THEN 29 ELSE 28)
    ELSE IF m \in {4, 6, 9, 11} THEN 30 ELSE 31

\* the date n days after the first of month m of year y
RECURSIVE DateAfter(_, _, _)
DateAfter(y, m, n) ==
    IF n < DaysInMonth(y, m) THEN <<y, m, n + 1>>
    ELSE IF m = 12 THEN DateAfter(y + 1, 1, n - DaysInMonth(y, m))
    ELSE DateAfter(y, m + 1, n - DaysInMonth(y, m))

\* date + timedelta(days=1)
NextDay(dt) ==
    IF dt[3] < DaysInMonth(dt[1], dt[2]) THEN <<dt[1], dt[2], dt[3] + 1>>
    ELSE IF dt[2] < 12 THEN <<dt[1], dt[2] + 1, 1>>
    ELSE <<dt[1] + 1, 1, 1>>

\* date - timedelta(days=1)
PrevDay(dt) ==
    IF dt[3] > 1 THEN <<dt[1], dt[2], dt[3] - 1>>
    ELSE IF dt[2] > 1 THEN <<dt[1], dt[2] - 1, DaysInMonth(dt[1], dt[2] - 1)>>
    ELSE <<dt[1] - 1, 12, 31>>

\* date + timedelta(days=n), n >= 0
RECURSIVE PlusDays(_, _)
PlusDays(dt, n) == IF n = 0 THEN dt ELSE PlusDays(NextDay(dt), n - 1)

\* date - timedelta(days=n), n >= 0
RECURSIVE MinusDays(_, _)
MinusDays(dt, n) == IF n = 0 THEN dt ELSE MinusDays(PrevDay(dt), n - 1)

\* current_date.isoformat(): the year, month and day of day number d
IsoFormat(d) ==
    IF d >= 0 THEN DateAfter(2024, 1, d) ELSE MinusDays(<<2024, 1, 1>>, -d)

\* created_at.strftime("%A")
DayName(d) ==
    <<"Monday", "Tuesday", "Wednesday", "Thursday", "Friday", "Saturday",
      "Sunday">>[(d % 7) + 1]

\* d[k] = d.get(k, 0) + v on a dict kept as its items in insertion order
AddTo(items, k, v) ==
    IF \E i \in DOMAIN items : items[i][1] = k
    THEN LET i == CHOOSE j \in DOMAIN items : items[j][1] = k
         IN  [items EXCEPT ![i] = <<k, @[2] + v>>]
    ELSE Append(items, <<k, v>>)

\* variant: an item goes in front of the items of equal value
InsertDescendingUnstable(sorted, p) ==
    LET n == Cardinality({i \in DOMAIN sorted : sorted[i][2] > p[2]})
    IN  SubSeq(sorted, 1, n) \o <<p>> \o SubSeq(sorted, n + 1, Len(sorted))

\* sorted(..., key=lambda x: x[1], reverse=True) keeps equal keys in their
\* original order: item p goes behind every item whose value is >= its own
InsertDescending(sorted, p) ==
    LET n == Cardinality({i \in DOMAIN sorted : sorted[i][2] >= p[2]})
    IN  SubSeq(sorted, 1, n) \o <<p>> \o SubSeq(sorted, n + 1, Len(sorted))

RECURSIVE SortedDescending(_)
SortedDescending(items) ==
    IF items = <<>> THEN <<>>
    ELSE InsertDescending(SortedDescending(SubSeq(items, 1, Len(items) - 1)),
                          items[Len(items)])

\* seq[:n]
Take(seq, n) == SubSeq(seq, 1, IF Len(seq) < n THEN Len(seq) ELSE n)

\* variant: each day's query is open to the end of the window
RECURSIVE TrendEntriesToEnd(_, _, _)
TrendEntriesToEnd(u, d, e) ==
    IF d > e THEN <<>>
    ELSE LET daily_sales == FindPaidInvoices(u, d, e)
         IN  <<[date |-> IsoFormat(d), sales |-> SumAmount(daily_sales),
                count |-> Len(daily_sales)]>> \o TrendEntriesToEnd(u, d + 1, e)

\* ReportsUtils._calculate_sales_trend: one query per day of the window
RECURSIVE TrendEntries(_, _, _)
TrendEntries(u, d, e) ==
    IF d > e THEN <<>>
    ELSE LET daily_sales == FindPaidInvoices(u, d, d)
         IN  <<[date |-> IsoFormat(d), sales |-> SumAmount(daily_sales),
                count |-> Len(daily_sales)]>> \o TrendEntries(u, d + 1, e)

\* variant: the loop stops before end_date
CalculateSalesTrendExclusive(u, s, e, f) ==
    IF \E q \in 1..(e - s) : Raises(f, q) THEN <<>>
    ELSE TrendEntries(u, s, e - 1)

CalculateSalesTrend(u, s, e, f) ==
    IF \E q \in 1..(e - s + 1) : Raises(f, q) THEN <<>>
    ELSE TrendEntries(u, s, e)

\* the day_sales dict of _calculate_top_selling_periods after n sales
RECURSIVE DaySales(_, _)
DaySales(sales, n) ==
    IF n = 0 THEN <<>>
    ELSE AddTo(DaySales(sales, n - 1), DayName(sales[n].created_at),
               sales[n].total_amount)

\* ReportsUtils._calculate_top_selling_periods
CalculateTopSellingPeriods(sales) ==
    LET ranked == SortedDescending(DaySales(sales, Len(sales)))
    IN  Take([i \in DOMAIN ranked |->
                [period |-> ranked[i][1], sales |-> ranked[i][2]]], 3)

\* SalesMetrics(): every field at its default
DefaultSalesMetrics ==
    [total_sales |-> Num(0), sales_count |-> 0, average_sale_value |-> Num(0),
     top_selling_periods |-> <<>>, sales_trend |-> <<>>,
     conversion_rate |-> Num(0), recurring_revenue |-> Num(0)]

\* variant: no early return for a window without paid invoices
GetSalesMetricsAlways(u, s, e, f) ==
    LET sales == FindPaidInvoices(u, s, e)
        total_sales == SumAmount(sales)
        sales_count == Len(sales)
    IN  IF Raises(f, 1) THEN DefaultSalesMetrics
        ELSE [total_sales |-> Num(total_sales),
              sales_count |-> sales_count,
              average_sale_value |->
                  IF sales_count > 0 THEN Frac(total_sales, sales_count)
                  ELSE Num(0),
              top_selling_periods |-> CalculateTopSellingPeriods(sales),
              sales_trend |-> CalculateSalesTrend(u, s, e, Shift(f, 1)),
              conversion_rate |-> Num(75),
              recurring_revenue |-> Frac(total_sales * 6, 10)]

\* ReportsUtils.get_sales_metrics
GetSalesMetrics(u, s, e, f) ==
    LET sales == FindPaidInvoices(u, s, e)
        total_sales == SumAmount(sales)
        sales_count == Len(sales)
    IN  IF Raises(f, 1) THEN DefaultSalesMetrics
        ELSE IF sales = <<>> THEN DefaultSalesMetrics
        ELSE [total_sales |-> Num(total_sales),
              sales_count |-> sales_count,
              average_sale_value |->
                  IF sales_count > 0 THEN Frac(total_sales, sales_count)
                  ELSE Num(0),
              top_selling_periods |-> CalculateTopSellingPeriods(sales),
              sales_trend |-> CalculateSalesTrend(u, s, e, Shift(f, 1)),
              conversion_rate |-> Num(75),
              recurring_revenue |-> Frac(total_sales * 6, 10)]

----------------------------------------------------------------------------
(* Customer calculator                                                     *)

\* the number of customers top_customers keeps: [:5]
TopCustomersLimit == 5

\* if customer_id: (0 stands for a missing or empty id)
Truthy(customer_id) == customer_id # 0

\* the customer_values dict of get_customer_metrics after n paid invoices
RECURSIVE CustomerValues(_, _)
CustomerValues(paid, n) ==
    IF n = 0 THEN <<>>
    ELSE IF Truthy(paid[n].customer_id)
         THEN AddTo(CustomerValues(paid, n - 1), paid[n].customer_id,
                    paid[n].total_amount)
         ELSE CustomerValues(paid, n - 1)

\* next((c for c in all_customers if c.get("id") == customer_id), None)
HasCustomer(all_customers, customer_id) ==
    \E i \in DOMAIN all_customers : all_customers[i].id = customer_id

FirstCustomer(all_customers, customer_id) ==
    all_customers[CHOOSE i \in DOMAIN all_customers :
        /\ all_customers[i].id = customer_id
        /\ \A j \in 1..(i - 1) : all_customers[j].id # customer_id]

\* the top_customers list built from the ranked (customer_id, value) items
TopCustomers(all_customers, customer_values) ==
    LET ranked == Take(SortedDescending(customer_values), TopCustomersLimit)
        known == SelectSeq(ranked, LAMBDA p : HasCustomer(all_customers, p[1]))
    IN  [i \in DOMAIN known |->
            [id |-> known[i][1],
             name |-> FirstCustomer(all_customers, known[i][1]).name,
             value |-> known[i][2]]]

RECURSIVE SumValues(_)
SumValues(items) ==
    IF items = <<>> THEN 0 ELSE Head(items)[2] + SumValues(Tail(items))

\* CustomerMetrics(): every field at its default
DefaultCustomerMetrics ==
    [total_customers |-> 0, active_customers |-> 0, new_customers |-> 0,
     customer_retention_rate |-> Num(0), average_customer_value |-> Num(0),
     top_customers |-> <<>>, customer_segments |-> <<>>, churn_rate |-> Num(0)]

\* the record get_customer_metrics builds from what its four queries
\* returned
CustomerMetricsOf(all_customers, new_customers, paid, period_invoices) ==
    LET total_customers == Len(all_customers)
        customer_values == CustomerValues(paid, Len(paid))
        total_customer_value == SumValues(customer_values)
        active_customer_ids ==
            {period_invoices[i].customer_id : i \in
                {j \in DOMAIN period_invoices :
                    Truthy(period_invoices[j].customer_id)}}
    IN  [total_customers |-> total_customers,
         active_customers |-> Cardinality(active_customer_ids),
         new_customers |-> Len(new_customers),
         customer_retention_rate |-> Num(90),
         average_customer_value |->
             IF total_customers > 0
             THEN Frac(total_customer_value, total_customers)
             ELSE Num(0),
         top_customers |-> TopCustomers(all_customers, customer_values),
         customer_segments |-> <<>>,
         churn_rate |-> Num(5)]

\* variant: the retention rate computed from the active customers
GetCustomerMetricsComputedRetention(u, s, e, f) ==
    LET all_customers == FindCustomers(u)
        total_customers == Len(all_customers)
        paid == FindAllPaidInvoices(u)
        customer_values == CustomerValues(paid, Len(paid))
        period_invoices == FindInvoices(u, s, e)
        active_customers ==
            Cardinality({period_invoices[i].customer_id : i \in
                {j \in DOMAIN period_invoices :
                    Truthy(period_invoices[j].customer_id)}})
    IN  IF \E q \in 1..4 : Raises(f, q) THEN DefaultCustomerMetrics
        ELSE [total_customers |-> total_customers,
              active_customers |-> active_customers,
              new_customers |-> Len(FindNewCustomers(u, s, e)),
              customer_retention_rate |->
                  IF total_customers > 0
                  THEN Frac(active_customers * 100, total_customers)
                  ELSE Num(0),
              average_customer_value |->
                  IF total_customers > 0
                  THEN Frac(SumValues(customer_values), total_customers)
                  ELSE Num(0),
              top_customers |-> TopCustomers(all_customers, customer_values),
              customer_segments |-> <<>>,
              churn_rate |-> Num(5)]

\* ReportsUtils.get_customer_metrics: four queries
GetCustomerMetrics(u, s, e, f) ==
    IF \E q \in 1..4 : Raises(f, q) THEN DefaultCustomerMetrics
    ELSE CustomerMetricsOf(FindCustomers(u), FindNewCustomers(u, s, e),
                           FindAllPaidInvoices(u), FindInvoices(u, s, e))

----------------------------------------------------------------------------
(* Chart data generator                                                    *)

ChartTypes == {"revenue_trend", "invoice_status", "top_customers", "other"}

Raised == [raised |-> TRUE]
Returned(v) == [raised |-> FALSE, value |-> v]

\* ChartData(...): data has min_items=1, so an empty list is a
\* ValidationError; the other required fields are non-empty literals
NewChartData(chart_type, title, data, x_axis, y_axis, colors, description) ==
    IF Len(data) < 1 THEN Raised
    ELSE Returned([chart_type |-> chart_type, title |-> title, data |-> data,
                   x_axis |-> x_axis, y_axis |-> y_axis, colors |-> colors,
                   description |-> description])

\* the status_counts dict of the invoice_status branch after n invoices
RECURSIVE StatusCounts(_, _)
StatusCounts(found, n) ==
    IF n = 0 THEN <<>>
    ELSE AddTo(StatusCounts(found, n - 1), found[n].payment_status, 1)

\* charts.append(chart) when the chart was built
Appended(chart) == IF chart.raised THEN Raised ELSE Returned(<<chart.value>>)

\* the try block of generate_chart_data
ChartDataBody(u, chart_type, s, e, f) ==
    IF chart_type = "revenue_trend"
    THEN Appended(NewChartData("line", "Revenue Trend",
             CalculateSalesTrend(u, s, e, f), "date", "sales", <<"#3B82F6">>,
             "Daily revenue trend over the selected period"))
    ELSE IF chart_type = "invoice_status"
    THEN IF Raises(f, 1) THEN Raised
         ELSE LET found == FindInvoices(u, s, e)
                  status_counts == StatusCounts(found, Len(found))
              IN  Appended(NewChartData("pie", "Invoice Status Distribution",
                      [i \in DOMAIN status_counts |->
                          [status |-> status_counts[i][1],
                           count |-> status_counts[i][2]]],
                      "status", "count", <<"#10B981", "#F59E0B", "#EF4444">>,
                      "Distribution of invoice statuses"))
    ELSE IF chart_type = "top_customers"
    THEN Appended(NewChartData("bar", "Top Customers by Revenue",
             GetCustomerMetrics(u, s, e, f).top_customers, "name", "value",
             <<"#8B5CF6">>, "Top customers ranked by total revenue"))
    ELSE Returned(<<>>)

\* except Exception: return []
CatchReturnEmpty(body) == IF body.raised THEN Returned(<<>>) ELSE body

\* variant: no except clause around the body
GenerateChartDataUncaught(u, chart_type, s, e, f) ==
    ChartDataBody(u, chart_type, s, e, f)

\* ReportsUtils.generate_chart_data
GenerateChartData(u, chart_type, s, e, f) ==
    CatchReturnEmpty(ChartDataBody(u, chart_type, s, e, f))

----------------------------------------------------------------------------
(* Data sets                                                               *)

\* the lists of n numbers of 1..k in nondecreasing order
RECURSIVE NonDecreasing(_, _)
NonDecreasing(n, k) ==
    IF n = 0 THEN {<<>>}
    ELSE UNION {{Append(t, x) : x \in (IF t = <<>> THEN 1 ELSE t[Len(t)])..k}
                : t \in NonDecreasing(n - 1, k)}

\* One customer per user, present from day 0.
BaseCustomers ==
    <<[id |-> 1, user_id |-> "u1", name |-> <<"name", 1>>, created_at |-> 0],
      [id |-> 2, user_id |-> "u2", name |-> <<"name", 2>>, created_at |-> 0]>>

\* what the accepted create_invoice requests store
Template(u, c, amount, payment_status, status) ==
    [user_id |-> u, customer_id |-> c, total_amount |-> amount,
     payment_status |-> payment_status, status |-> status]

FinancialTemplates ==
    <<Template("u1", 1, 100, "paid", "paid"),
      Template("u1", 1, 200, "paid", "paid"),
      Template("u1", 1, 50, "pending", "sent"),
      Template("u1", 1, 50, "partial", "overdue"),
      Template("u2", 2, 100, "paid", "paid")>>

SalesTemplates ==
    <<Template("u1", 1, 50, "paid", "paid"),
      Template("u1", 1, 100, "paid", "paid"),
      Template("u1", 1, 50, "pending", "sent"),
      Template("u2", 2, 100, "paid", "paid")>>

\* the invoice stored on day d from template tm
InvoiceDoc(tm, d) ==
    [user_id |-> tm.user_id, customer_id |-> tm.customer_id,
     total_amount |-> tm.total_amount, payment_status |-> tm.payment_status,
     status |-> tm.status, created_at |-> d]

\* The data set of the invoices numbered t[1], t[2], ...: number x is
\* template ((x - 1) % nt) + 1 stored on day (x - 1) \div nt, so a
\* nondecreasing t lists the invoices in order of creation (created_at is
\* the insertion time).
InvoiceList(templates, t) ==
    LET nt == Len(templates)
    IN  [i \in DOMAIN t |->
            InvoiceDoc(templates[((t[i] - 1) % nt) + 1], (t[i] - 1) \div nt)]

\* invoices is a data set of up to max invoices over days 0..MaxDay
InvoicesFrom(templates, max) ==
    \E n \in 0..max :
        \E t \in NonDecreasing(n, Len(templates) * (MaxDay + 1)) :
            invoices = InvoiceList(templates, t)

\* Customer data sets: u1 has n customers, one registered a day from day 0
\* on (ids 1..n), and u2 has one (id n + 1).
CustomerPopulation(n) ==
    [i \in 1..(n + 1) |->
        [id |-> i, user_id |-> IF i <= n THEN "u1" ELSE "u2",
         name |-> <<"name", i>>,
         created_at |-> IF i <= n THEN (i - 1) % (MaxDay + 1) ELSE 0]]

\* a paid and a pending $100 invoice for each customer of the population
CustomerTemplates(n) ==
    [x \in 1..(2 * (n + 1)) |->
        LET c == ((x - 1) \div 2) + 1
        IN  Template(IF c <= n THEN "u1" ELSE "u2", c, 100,
                     IF x % 2 = 1 THEN "paid" ELSE "pending",
                     IF x % 2 = 1 THEN "paid" ELSE "sent")]

\* create_invoice accepts an invoice only for a customer that exists
AfterCustomer(population, list) ==
    \A i \in DOMAIN list :
        list[i].created_at >= population[list[i].customer_id].created_at

\* Ranking data sets: n paid invoices of u1 on day 0, each of $10 or $20,
\* for customers numbered downwards in the order of their first invoice.
\* FirstInvoiceOrders(n): invoice i is for the t[i]-th customer to be met.
RECURSIVE FirstInvoiceOrders(_)
FirstInvoiceOrders(n) ==
    IF n = 0 THEN {<<>>}
    ELSE UNION {{Append(t, x) : x \in 1..(Cardinality({t[j] : j \in DOMAIN t}) + 1)}
                : t \in FirstInvoiceOrders(n - 1)}

RankingList(max, t, a) ==
    [i \in DOMAIN t |->
        InvoiceDoc(Template("u1", max + 1 - t[i], a[i], "paid", "paid"), 0)]

RankingCustomers(max) ==
    [i \in 1..max |->
        [id |-> i, user_id |-> "u1", name |-> <<"name", i>>, created_at |-> 0]]

NoRequest == [op |-> "none"]

\* AIAssistant.__init__: self.business_context_cache = {}
EmptyCache == <<>>

Days == 0..MaxDay
FailPoints == 0..MaxFailAt

InitFin ==
    /\ InvoicesFrom(FinancialTemplates, MaxInvoices)
    /\ customers = BaseCustomers
    /\ reports = <<>>
    /\ business_context_cache = EmptyCache
    /\ utcnow = 0
    /\ req = NoRequest
    /\ resp = NoRequest

InitSales ==
    /\ InvoicesFrom(SalesTemplates, MaxInvoices)
    /\ customers = BaseCustomers
    /\ reports = <<>>
    /\ business_context_cache = EmptyCache
    /\ utcnow = 0
    /\ req = NoRequest
    /\ resp = NoRequest

InitCharts ==
    /\ InvoicesFrom(SalesTemplates, MaxCustomerInvoices)
    /\ customers = BaseCustomers
    /\ reports = <<>>
    /\ business_context_cache = EmptyCache
    /\ utcnow = 0
    /\ req = NoRequest
    /\ resp = NoRequest

InitCustomers ==
    /\ \E n \in 0..MaxCustomers :
          /\ customers = CustomerPopulation(n)
          /\ InvoicesFrom(CustomerTemplates(n), MaxCustomerInvoices)
          /\ AfterCustomer(customers, invoices)
    /\ reports = <<>>
    /\ business_context_cache = EmptyCache
    /\ utcnow = 0
    /\ req = NoRequest
    /\ resp = NoRequest

InitRanking ==
    /\ customers = RankingCustomers(MaxRanked)
    /\ \E n \in 0..MaxRanked :
          \E t \in FirstInvoiceOrders(n), a \in [1..n -> {10, 20}] :
              invoices = RankingList(MaxRanked, t, a)
    /\ reports = <<>>
    /\ business_context_cache = EmptyCache
    /\ utcnow = 0
    /\ req = NoRequest
    /\ resp = NoRequest

----------------------------------------------------------------------------
(* Requests                                                                *)

Request(op, u, s, e, f) ==
    [op |-> op, user_id |-> u, start_date |-> s, end_date |-> e, failAt |-> f]

\* a caller awaits get_financial_metrics(u, s, e)
FinancialMetricsRequest ==
    /\ req = NoRequest
    /\ \E u \in Users, s \in Days, e \in Days, f \in FailPoints :
        /\ req' = Request("financial", u, s, e, f)
        /\ resp' = [raised |-> FALSE, value |-> GetFinancialMetrics(u, s, e, f)]
        /\ UNCHANGED <<invoices, customers, reports, business_context_cache, utcnow>>

\* a caller awaits _calculate_growth_rate(u, s, e, "revenue")
GrowthRateRequest ==
    /\ req = NoRequest
    /\ \E u \in Users, s \in Days, e \in Days, f \in FailPoints :
        /\ req' = Request("growth", u, s, e, f)
        /\ resp' = [raised |-> FALSE, value |-> CalculateGrowthRate(u, s, e, f)]
        /\ UNCHANGED <<invoices, customers, reports, business_context_cache, utcnow>>

NextFin == FinancialMetricsRequest \/ GrowthRateRequest

SpecFin == InitFin /\ [][NextFin]_vars

\* a caller awaits get_sales_metrics(u, s, e)
SalesMetricsRequest ==
    /\ req = NoRequest
    /\ \E u \in Users, s \in Days, e \in Days, f \in FailPoints :
        /\ req' = Request("sales", u, s, e, f)
        /\ resp' = [raised |-> FALSE, value |-> GetSalesMetrics(u, s, e, f)]
        /\ UNCHANGED <<invoices, customers, reports, business_context_cache, utcnow>>

\* a caller awaits _calculate_sales_trend(u, s, e)
SalesTrendRequest ==
    /\ req = NoRequest
    /\ \E u \in Users, s \in Days, e \in Days, f \in FailPoints :
        /\ req' = Request("trend", u, s, e, f)
        /\ resp' = [raised |-> FALSE, value |-> CalculateSalesTrend(u, s, e, f)]
        /\ UNCHANGED <<invoices, customers, reports, business_context_cache, utcnow>>

NextSales == SalesMetricsRequest \/ SalesTrendRequest

SpecSales == InitSales /\ [][NextSales]_vars

\* a caller awaits get_customer_metrics(u, s, e)
CustomerMetricsRequest(U, D) ==
    /\ req = NoRequest
    /\ \E u \in U, s \in D, e \in D, f \in FailPoints :
        /\ req' = Request("customer", u, s, e, f)
        /\ resp' = [raised |-> FALSE, value |-> GetCustomerMetrics(u, s, e, f)]
        /\ UNCHANGED <<invoices, customers, reports, business_context_cache, utcnow>>

\* a caller awaits generate_chart_data(u, chart_type, s, e)
ChartDataRequest ==
    /\ req = NoRequest
    /\ \E u \in Users, c \in ChartTypes, s \in Days, e \in Days, f \in FailPoints :
        /\ req' = Request("chart", u, s, e, f) @@ [chart_type |-> c]
        /\ resp' = GenerateChartData(u, c, s, e, f)
        /\ UNCHANGED <<invoices, customers, reports, business_context_cache, utcnow>>

NextCustomers == CustomerMetricsRequest(Users, Days)

SpecCustomers == InitCustomers /\ [][NextCustomers]_vars

NextCharts == ChartDataRequest

SpecCharts == InitCharts /\ [][NextCharts]_vars

\* the ranking is the same in every window: one user, one window
NextRanking == CustomerMetricsRequest({"u1"}, {0})

SpecRanking == InitRanking /\ [][NextRanking]_vars

----------------------------------------------------------------------------
(* KPI metrics                                                             *)

\* KPIMetric(...): name, unit and description have min_length=1, so an
\* empty string for any of them is a ValidationError
NewKPIMetric(name, value, unit, change, change_type, description, target, is_good) ==
    IF name = "" \/ unit = "" \/ description = "" THEN Raised
    ELSE Returned([name |-> name, value |-> value, unit |-> unit,
                   change |-> change, change_type |-> change_type,
                   description |-> description, target |-> target,
                   is_good |-> is_good])

\* the list display kpis = [KPIMetric(...), ...]: it raises when building
\* any of its entries raises
ListOf(built) ==
    IF \E i \in DOMAIN built : built[i].raised THEN Raised
    ELSE Returned([i \in DOMAIN built |-> built[i].value])

\* the four KPIMetric constructions of get_kpi_metrics, in order
KpiEntries(financial_metrics, customer_metrics) ==
    <<NewKPIMetric("Total Revenue", financial_metrics.total_revenue, "₹",
          financial_metrics.growth_rate,
          IF FracLt(Num(0), financial_metrics.growth_rate)
          THEN "positive" ELSE "negative",
          "Total revenue for the period",
          FracMul(financial_metrics.total_revenue, Frac(12, 10)),
          FracLt(Num(0), financial_metrics.growth_rate)),
      NewKPIMetric("Collection Rate", financial_metrics.collection_rate, "%",
          Num(0), "neutral", "Percentage of invoices paid on time",
          Num(85), FracLt(Num(75), financial_metrics.collection_rate)),
      NewKPIMetric("Average Invoice Value",
          financial_metrics.average_invoice_value, "₹", Num(0), "neutral",
          "Average value per invoice",
          FracMul(financial_metrics.average_invoice_value, Frac(115, 100)),
          FracLt(Num(1000), financial_metrics.average_invoice_value)),
      NewKPIMetric("New Customers", Num(customer_metrics.new_customers), "",
          Num(0), "neutral", "New customers acquired this period",
          FracMul(Num(customer_metrics.new_customers), Frac(125, 100)),
          customer_metrics.new_customers > 0)>>

\* ReportsUtils.get_kpi_metrics; ff and fc are the failure points of the
\* store as get_financial_metrics and get_customer_metrics meet them
GetKpiMetrics(u, s, e, ff, fc) ==
    CatchReturnEmpty(ListOf(KpiEntries(GetFinancialMetrics(u, s, e, ff),
                                       GetCustomerMetrics(u, s, e, fc))))

\* a caller awaits get_kpi_metrics(u, s, e)
KpiMetricsRequest ==
    /\ req = NoRequest
    /\ \E u \in Users, s \in Days, e \in Days, ff \in FailPoints, fc \in FailPoints :
        /\ req' = Request("kpi", u, s, e, ff) @@ [customerFailAt |-> fc]
        /\ resp' = GetKpiMetrics(u, s, e, ff, fc)
        /\ UNCHANGED <<invoices, customers, reports, business_context_cache, utcnow>>

NextKpi == KpiMetricsRequest

SpecKpi == InitCustomers /\ [][NextKpi]_vars

----------------------------------------------------------------------------
(* Period resolution (utils/helpers.py, get_date_range)                    *)

\* A calendar date is <<year, month, day>>; get_date_range returns
\* datetimes of which every caller keeps the .date().

\* the years the current date is drawn from: a common year, a leap year,
\* a century year that is not a leap year and one that is
TodayYears == {2023, 2024, 2100, 2000}

\* the dates datetime.now() may fall on
Dates ==
    {dt \in TodayYears \X (1..12) \X (1..31) : dt[3] <= DaysInMonth(dt[1], dt[2])}

\* the days of year y before the first of month m
RECURSIVE DaysBeforeMonth(_, _)
DaysBeforeMonth(y, m) ==
    IF m = 1 THEN 0 ELSE DaysBeforeMonth(y, m - 1) + DaysInMonth(y, m - 1)

\* date.toordinal(): day 1 is 0001-01-01
ToOrdinal(dt) ==
    LET y == dt[1] - 1
    IN  y * 365 + (y \div 4) - (y \div 100) + (y \div 400)
        + DaysBeforeMonth(dt[1], dt[2]) + dt[3]

\* date.weekday(): Monday is 0
Weekday(dt) == (ToOrdinal(dt) + 6) % 7

Periods == {"today", "week", "month", "quarter", "year", "custom", "last30"}

\* variant: the month ends a fixed 29 days after its first day
MonthRangeFixedOffset(today) ==
    LET start_date == <<today[1], today[2], 1>>
    IN  <<start_date, PlusDays(start_date, 29)>>

\* the month branch: first day of the month, and the first day of the next
\* month (day 28 plus 4 days, minus its own day number) minus one day
MonthRange(today) ==
    LET start_date == <<today[1], today[2], 1>>
        next_month == PlusDays(<<today[1], today[2], 28>>, 4)
    IN  <<start_date, MinusDays(next_month, next_month[3])>>

\* variant: the quarter numbered without the - 1
QuarterRangeOffByOne(today) ==
    LET quarter == (today[2] \div 3) + 1
        m == IF quarter > 4 THEN 4 ELSE quarter
    IN  <<<<today[1], 3 * m - 2, 1>>,
          <<today[1], 3 * m, DaysInMonth(today[1], 3 * m)>>>>

\* the quarter branch: calendar.monthrange gives the last day of month 3q
QuarterRange(today) ==
    LET quarter == ((today[2] - 1) \div 3) + 1
        start_date == <<today[1], 3 * quarter - 2, 1>>
        end_date == <<today[1], 3 * quarter, 1>>
    IN  <<start_date,
          <<end_date[1], end_date[2], DaysInMonth(end_date[1], end_date[2])>>>>

\* get_date_range(period) when datetime.now() falls on the date today;
\* any period it does not know, "custom" included, is the last 30 days
GetDateRange(period, today) ==
    IF period = "today" THEN <<today, today>>
    ELSE IF period = "week"
    THEN LET start_date == MinusDays(today, Weekday(today))
         IN  <<start_date, PlusDays(start_date, 6)>>
    ELSE IF period = "month" THEN MonthRange(today)
    ELSE IF period = "quarter" THEN QuarterRange(today)
    ELSE IF period = "year"
    THEN <<<<today[1], 1, 1>>, <<today[1], 12, 31>>>>
    ELSE <<MinusDays(today, 30), today>>

InitDates ==
    /\ invoices = <<>>
    /\ customers = BaseCustomers
    /\ reports = <<>>
    /\ business_context_cache = EmptyCache
    /\ utcnow = 0
    /\ req = NoRequest
    /\ resp = NoRequest

\* a caller evaluates get_date_range(period) on the date today
DateRangeRequest ==
    /\ req = NoRequest
    /\ \E period \in Periods, today \in Dates :
        /\ req' = [op |-> "date_range", period |-> period, today |-> today]
        /\ resp' = Returned(GetDateRange(period, today))
        /\ UNCHANGED <<invoices, customers, reports, business_context_cache, utcnow>>

NextDates == DateRangeRequest

SpecDates == InitDates /\ [][NextDates]_vars

----------------------------------------------------------------------------
(* The three calculators over one family of data sets                      *)

NextCalculators ==
    \/ FinancialMetricsRequest
    \/ SalesMetricsRequest
    \/ CustomerMetricsRequest(Users, Days)

SpecCalculators == InitCustomers /\ [][NextCalculators]_vars

----------------------------------------------------------------------------
(* Overview synthesizer                                                    *)

\* f"{x:.1f}": x rounded to one decimal, kept as a whole number of tenths
\* (ties go to the even tenth, as for a float that holds x exactly)
Tenths(x) ==
    LET n == 10 * x[1]
        q == n \div x[2]
        r == n % x[2]
    IN  IF 2 * r < x[2] THEN q
        ELSE IF 2 * r > x[2] THEN q + 1
        ELSE IF q % 2 = 0 THEN q ELSE q + 1

\* abs(x)
FracAbs(x) == <<Abs(x[1]), x[2]>>

\* the list after the statement: if cond: items.append(item)
AppendIf(items, cond, item) == IF cond THEN Append(items, item) ELSE items

\* variant: one chain of elif, so only the first rule that holds fires
KeyInsightsFirstMatch(financial_metrics, customer_metrics) ==
    IF FracLt(Num(10), financial_metrics.growth_rate)
    THEN <<<<"Revenue grew by", Tenths(financial_metrics.growth_rate),
             "% - excellent growth!">>>>
    ELSE IF FracLt(financial_metrics.growth_rate, Num(-5))
    THEN <<<<"Revenue declined by",
             Tenths(FracAbs(financial_metrics.growth_rate)),
             "% - needs attention">>>>
    ELSE IF FracLt(Num(80), financial_metrics.collection_rate)
    THEN <<<<"Collection rate is healthy at",
             Tenths(financial_metrics.collection_rate), "%">>>>
    ELSE IF FracLt(financial_metrics.collection_rate, Num(60))
    THEN <<<<"Collection rate is low at",
             Tenths(financial_metrics.collection_rate),
             "% - improve payment collection">>>>
    ELSE AppendIf(<<>>, customer_metrics.new_customers > 0,
             <<"Acquired", customer_metrics.new_customers,
               "new customers this period">>)

\* the key_insights list of generate_business_overview
KeyInsights(financial_metrics, customer_metrics) ==
    LET growth ==
            IF FracLt(Num(10), financial_metrics.growth_rate)
            THEN <<<<"Revenue grew by", Tenths(financial_metrics.growth_rate),
                     "% - excellent growth!">>>>
            ELSE IF FracLt(financial_metrics.growth_rate, Num(-5))
            THEN <<<<"Revenue declined by",
                     Tenths(FracAbs(financial_metrics.growth_rate)),
                     "% - needs attention">>>>
            ELSE <<>>
        collection ==
            IF FracLt(Num(80), financial_metrics.collection_rate)
            THEN Append(growth,
                     <<"Collection rate is healthy at",
                       Tenths(financial_metrics.collection_rate), "%">>)
            ELSE IF FracLt(financial_metrics.collection_rate, Num(60))
            THEN Append(growth,
                     <<"Collection rate is low at",
                       Tenths(financial_metrics.collection_rate),
                       "% - improve payment collection">>)
            ELSE growth
    IN  AppendIf(collection, customer_metrics.new_customers > 0,
            <<"Acquired", customer_metrics.new_customers,
              "new customers this period">>)

\* the recommendations list of generate_business_overview
Recommendations(financial_metrics, customer_metrics) ==
    AppendIf(
        AppendIf(
            AppendIf(<<>>, financial_metrics.overdue_invoices > 0,
                "Set up automated payment reminders to reduce overdue invoices"),
            FracLt(Num(0), financial_metrics.average_invoice_value),
            "Consider upselling to increase average invoice value"),
        customer_metrics.total_customers > 5,
        "Implement customer loyalty programs to increase retention")

\* the performance_indicators dict of generate_business_overview
PerformanceIndicators(financial_metrics, customer_metrics) ==
    [revenue_health |->
        IF FracLt(Num(0), financial_metrics.growth_rate)
        THEN "good" ELSE "needs_attention",
     customer_growth |->
        IF customer_metrics.new_customers > 0 THEN "good" ELSE "stable",
     cash_flow |->
        IF FracLt(Num(70), financial_metrics.collection_rate)
        THEN "good" ELSE "needs_attention",
     business_efficiency |->
        IF FracLt(Num(1000), financial_metrics.average_invoice_value)
        THEN "good" ELSE "average"]

\* BusinessOverview(...) of three metrics records
Overview(financial_metrics, sales_metrics, customer_metrics) ==
    [financial_metrics |-> financial_metrics,
     sales_metrics |-> sales_metrics,
     customer_metrics |-> customer_metrics,
     key_insights |-> KeyInsights(financial_metrics, customer_metrics),
     recommendations |-> Recommendations(financial_metrics, customer_metrics),
     performance_indicators |->
         PerformanceIndicators(financial_metrics, customer_metrics)]

\* variant: one failing sub-calculator empties the whole overview
GenerateBusinessOverviewAllOrNothing(u, s, e, ff, fs, fc) ==
    IF Raises(ff, 1) \/ Raises(fs, 1) \/ (\E q \in 1..4 : Raises(fc, q))
    THEN [financial_metrics |-> DefaultFinancialMetrics,
          sales_metrics |-> DefaultSalesMetrics,
          customer_metrics |-> DefaultCustomerMetrics,
          key_insights |-> <<>>, recommendations |-> <<>>,
          performance_indicators |->
              PerformanceIndicators(DefaultFinancialMetrics, DefaultCustomerMetrics)]
    ELSE Overview(GetFinancialMetrics(u, s, e, ff), GetSalesMetrics(u, s, e, fs),
                  GetCustomerMetrics(u, s, e, fc))

\* ReportsUtils.generate_business_overview; ff, fs and fc are the failure
\* points of the store as the three calculators meet them.  No statement of
\* the try block raises (the calculators catch their own exceptions), so
\* the except clause returning BusinessOverview() is never entered.
GenerateBusinessOverview(u, s, e, ff, fs, fc) ==
    Overview(GetFinancialMetrics(u, s, e, ff), GetSalesMetrics(u, s, e, fs),
             GetCustomerMetrics(u, s, e, fc))

\* what the overview requests read: a paid invoice of $2000, an overdue
\* one and one of another user
OverviewTemplates ==
    <<Template("u1", 1, 2000, "paid", "paid"),
      Template("u1", 1, 50, "pending", "overdue"),
      Template("u2", 2, 100, "paid", "paid")>>

InitOverview ==
    /\ InvoicesFrom(OverviewTemplates, MaxCustomerInvoices)
    /\ customers = BaseCustomers
    /\ reports = <<>>
    /\ business_context_cache = EmptyCache
    /\ utcnow = 0
    /\ req = NoRequest
    /\ resp = NoRequest

\* a caller awaits generate_business_overview(u, s, e)
OverviewRequest ==
    /\ req = NoRequest
    /\ \E u \in Users, s \in Days, e \in Days,
          ff \in FailPoints, fs \in FailPoints, fc \in FailPoints :
        /\ req' = Request("overview", u, s, e, ff)
                      @@ [salesFailAt |-> fs, customerFailAt |-> fc]
        /\ resp' = Returned(GenerateBusinessOverview(u, s, e, ff, fs, fc))
        /\ UNCHANGED <<invoices, customers, reports, business_context_cache, utcnow>>

\* date.toordinal() counted from day 0 of the data sets
DayNumber(dt) == ToOrdinal(dt) - ToOrdinal(<<2024, 1, 1>>)

\* raise HTTPException(status_code=...)
HttpError(status_code) == [raised |-> TRUE, status_code |-> status_code]

\* except Exception: raise HTTPException(500) around a route's body
CatchInternalError(body) ==
    IF body.raised /\ "status_code" \notin DOMAIN body THEN HttpError(500) ELSE body

\* whether the store is down for the whole of a request, as a failure point
Outage == {0, 1}

\* the dates the endpoints are called on
RequestDates == {<<2024, 1, 1>>, <<2024, 1, 3>>}

\* the periods the endpoints are called with (windows of up to a month)
RequestPeriods == Periods \ {"quarter", "year"}

\* GET /dashboard (get_dashboard_data): f is the failure point every
\* computation of the request meets
GetDashboardData(u, period, today, f) ==
    LET range == GetDateRange(period, today)
        start_date == DayNumber(range[1])
        end_date == DayNumber(range[2])
        business_overview ==
            GenerateBusinessOverview(u, start_date, end_date, f, f, f)
        kpi_metrics == GetKpiMetrics(u, start_date, end_date, f, f)
        charts ==
            GenerateChartData(u, "revenue_trend", start_date, end_date, f).value
            \o GenerateChartData(u, "invoice_status", start_date, end_date, f).value
    IN  CatchInternalError(Returned(
            [overview |-> business_overview,
             kpi_metrics |-> kpi_metrics.value,
             charts |-> charts,
             period |-> period,
             date_range |-> [start_date |-> IsoFormat(start_date),
                             end_date |-> IsoFormat(end_date)]]))

\* a client calls GET /dashboard?period=...
DashboardRequest ==
    /\ req = NoRequest
    /\ \E u \in Users, period \in RequestPeriods, today \in RequestDates, f \in Outage :
        /\ req' = [op |-> "dashboard", user_id |-> u, period |-> period,
                   today |-> today, failAt |-> f]
        /\ resp' = GetDashboardData(u, period, today, f)
        /\ UNCHANGED <<invoices, customers, reports, business_context_cache, utcnow>>

NextOverview == OverviewRequest \/ DashboardRequest

SpecOverview == InitOverview /\ [][NextOverview]_vars

----------------------------------------------------------------------------
(* Report generation (modules/reports/routes.py, generate_report)          *)

ReportTypes ==
    {"financial", "sales", "customer", "invoice", "business_overview", "custom"}

\* the ReportPeriod values the endpoint is called with (windows of up to a
\* month)
ReportPeriods == {"today", "week", "month", "custom"}

\* an optional date that was not given
None == <<>>

\* f"{x:,.2f}": x rounded to two decimals, kept as a whole number of
\* hundredths (ties go to the even hundredth)
Hundredths(x) ==
    LET n == 100 * x[1]
        q == n \div x[2]
        r == n % x[2]
    IN  IF 2 * r < x[2] THEN q
        ELSE IF 2 * r > x[2] THEN q + 1
        ELSE IF q % 2 = 0 THEN q ELSE q + 1

\* variant: a custom period with a missing date falls back on get_date_range
ReportWindowLenient(period, start_date, end_date, today) ==
    IF period = "custom" /\ start_date # None /\ end_date # None
    THEN Returned(<<start_date, end_date>>)
    ELSE Returned(GetDateRange(period, today))

\* the window of generate_report: the explicit dates of a custom period,
\* HTTP 400 when one of them is missing, get_date_range otherwise
ReportWindow(period, start_date, end_date, today) ==
    IF period = "custom"
    THEN IF start_date = None \/ end_date = None THEN HttpError(400)
         ELSE Returned(<<start_date, end_date>>)
    ELSE Returned(GetDateRange(period, today))

\* report_data, charts and insights of generate_report for one report type
ReportContent(u, report_type, s, e, include_charts, include_insights, f) ==
    LET trend == GenerateChartData(u, "revenue_trend", s, e, f).value
        status == GenerateChartData(u, "invoice_status", s, e, f).value
        top == GenerateChartData(u, "top_customers", s, e, f).value
    IN  IF report_type = "financial"
        THEN LET financial_metrics == GetFinancialMetrics(u, s, e, f)
             IN  [data |-> financial_metrics,
                  charts |-> IF include_charts THEN trend ELSE <<>>,
                  insights |->
                      IF include_insights
                      THEN <<<<"Total revenue: ₹",
                               Hundredths(financial_metrics.total_revenue)>>,
                             <<"Collection rate:",
                               Tenths(financial_metrics.collection_rate), "%">>,
                             <<"Growth rate:",
                               Tenths(financial_metrics.growth_rate), "%">>>>
                      ELSE <<>>]
        ELSE IF report_type = "sales"
        THEN LET sales_metrics == GetSalesMetrics(u, s, e, f)
             IN  [data |-> sales_metrics,
                  charts |-> IF include_charts THEN trend ELSE <<>>,
                  insights |->
                      IF include_insights
                      THEN <<<<"Total sales: ₹",
                               Hundredths(sales_metrics.total_sales)>>,
                             <<"Average sale value: ₹",
                               Hundredths(sales_metrics.average_sale_value)>>,
                             <<"Sales count:", sales_metrics.sales_count>>>>
                      ELSE <<>>]
        ELSE IF report_type = "customer"
        THEN LET customer_metrics == GetCustomerMetrics(u, s, e, f)
             IN  [data |-> customer_metrics,
                  charts |-> IF include_charts THEN top ELSE <<>>,
                  insights |->
                      IF include_insights
                      THEN <<<<"Total customers:", customer_metrics.total_customers>>,
                             <<"New customers:", customer_metrics.new_customers>>,
                             <<"Average customer value: ₹",
                               Hundredths(customer_metrics.average_customer_value)>>>>
                      ELSE <<>>]
        ELSE IF report_type = "business_overview"
        THEN LET business_overview == GenerateBusinessOverview(u, s, e, f, f, f)
             IN  [data |-> business_overview,
                  charts |-> IF include_charts THEN trend \o status \o top ELSE <<>>,
                  insights |->
                      IF include_insights THEN business_overview.key_insights
                      ELSE <<>>]
        ELSE [data |-> <<>>, charts |-> <<>>, insights |-> <<>>]

\* ReportData(...): id is a fresh uuid (here the number of the document),
\* generated_at is not modelled
NewReportData(id, u, report_type, period, start_date, end_date, content) ==
    [id |-> id, user_id |-> u, report_type |-> report_type, period |-> period,
     start_date |-> start_date, end_date |-> end_date,
     data |-> content.data, charts |-> content.charts,
     insights |-> content.insights,
     summary |-> [period |-> <<start_date, "to", end_date>>,
                  type |-> report_type]]

\* variant: the report takes the place of the last one stored
InsertOneReplacing(collection, document) ==
    IF collection = <<>> THEN <<document>>
    ELSE [collection EXCEPT ![Len(collection)] = document]

\* db.reports.insert_one(document)
InsertOne(collection, document) == Append(collection, document)

\* the response and the reports collection after generate_report; f is
\* the failure point the reads meet, w whether insert_one raises
GenerateReport(u, report_type, period, start_date, end_date, include_charts, include_insights, today, f, w) ==
    LET window == ReportWindow(period, start_date, end_date, today)
        s == DayNumber(window.value[1])
        e == DayNumber(window.value[2])
        report ==
            NewReportData(<<"uuid", Len(reports) + 1>>, u, report_type, period,
                IsoFormat(s), IsoFormat(e),
                ReportContent(u, report_type, s, e, include_charts,
                              include_insights, f))
    IN  IF window.raised THEN [response |-> window, reports |-> reports]
        ELSE IF w THEN [response |-> HttpError(500), reports |-> reports]
        ELSE [response |-> Returned([report |-> report]),
              reports |-> InsertOne(reports, report)]

\* bounds of the report data sets
MaxReportInvoices == 1
MaxReports == 1

\* the reports stored by n earlier invoice-type requests, each of either user
RECURSIVE EarlierReports(_)
EarlierReports(n) ==
    IF n = 0 THEN {<<>>}
    ELSE {Append(earlier, NewReportData(<<"uuid", n>>, u, "invoice", "today",
                     <<2024, 1, 1>>, <<2024, 1, 1>>,
                     [data |-> <<>>, charts |-> <<>>, insights |-> <<>>])) :
             earlier \in EarlierReports(n - 1), u \in Users}

\* the first n overview templates, stored on day 0
InitReports ==
    /\ \E n \in 0..MaxReportInvoices :
          invoices = InvoiceList(OverviewTemplates, [i \in 1..n |-> i])
    /\ customers = BaseCustomers
    /\ \E n \in 0..MaxReports : reports \in EarlierReports(n)
    /\ business_context_cache = EmptyCache
    /\ utcnow = 0
    /\ req = NoRequest
    /\ resp = NoRequest

\* the explicit dates a custom report is asked for
ExplicitDates == {None, <<2024, 1, 2>>}

\* a client calls POST /generate
GenerateReportRequest ==
    /\ req = NoRequest
    /\ \E u \in Users, report_type \in ReportTypes, period \in ReportPeriods,
          start_date \in ExplicitDates, end_date \in ExplicitDates,
          include_charts \in BOOLEAN, include_insights \in BOOLEAN,
          f \in Outage, w \in BOOLEAN :
        LET done == GenerateReport(u, report_type, period, start_date, end_date,
                        include_charts, include_insights, <<2024, 1, 3>>, f, w)
        IN  /\ req' = [op |-> "generate_report", user_id |-> u,
                       report_type |-> report_type, period |-> period,
                       start_date |-> start_date, end_date |-> end_date,
                       failAt |-> f, insertFails |-> w]
            /\ resp' = done.response
            /\ reports' = done.reports
            /\ UNCHANGED <<invoices, customers, business_context_cache, utcnow>>

NextReports ==
    \/ GenerateReportRequest
    \/ FinancialMetricsRequest
    \/ SalesMetricsRequest
    \/ CustomerMetricsRequest(Users, Days)
    \/ OverviewRequest
    \/ ChartDataRequest
    \/ KpiMetricsRequest

SpecReports == InitReports /\ [][NextReports]_vars

----------------------------------------------------------------------------
(* The writers of the store: invoice and customer requests                 *)
(* (modules/invoices/routes.py, modules/invoices/models.py,                *)
(* modules/invoices/utils.py, modules/crm/routes.py).                      *)
(*                                                                         *)
(* utcnow counts the seconds since 2024-01-01T00:00:00; a document's       *)
(* created_at is kept as the day number of its creation, as in the data    *)
(* sets above.  Ids are numbers.  Fields that no operation of the model    *)
(* reads (invoice_number, notes, updated_at, sent_at, paid_at, the         *)
(* customer's address fields) are left out of the documents.               *)

\* invoices in a store reached through the writers
MaxStoredInvoices == 1
\* customers in a store reached through the writers
MaxStoredCustomers == 1

SecondsPerDay == 24 * 60 * 60

\* datetime.utcnow().date(), date.today()
Today == utcnow \div SecondsPerDay

\* generate_uuid(): an id no document of the collection has
GenerateUuid(collection) ==
    CHOOSE i \in 1..(Len(collection) + 1) :
        \A j \in DOMAIN collection : collection[j].id # i

\* values.get(key, default) and dict.get(key, default)
Get(values, key, default) ==
    IF key \in DOMAIN values THEN values[key] ELSE default

\* InvoiceItem(...): total_price and tax_amount are recomputed by the
\* validators; tax_rate is a fraction <<n, d>> (the rates of the model
\* divide the prices exactly)
NewInvoiceItem(quantity, unit_price, tax_rate) ==
    LET total_price == quantity * unit_price
    IN  [quantity |-> quantity, unit_price |-> unit_price,
         total_price |-> total_price, tax_rate |-> tax_rate,
         tax_amount |-> (total_price * tax_rate[1]) \div tax_rate[2]]

\* InvoiceItem's field constraints: quantity > 0, unit_price >= 0,
\* 0 <= tax_rate <= 1
ItemAccepted(item) ==
    /\ item.quantity > 0
    /\ item.unit_price >= 0
    /\ item.tax_rate[1] >= 0
    /\ item.tax_rate[1] <= item.tax_rate[2]

\* sum(item.total_price for item in values['items'])
RECURSIVE CalculateSubtotal(_)
CalculateSubtotal(items) ==
    IF items = <<>> THEN 0
    ELSE Head(items).total_price + CalculateSubtotal(Tail(items))

\* sum(item.tax_amount for item in values['items'])
RECURSIVE CalculateTaxAmount(_)
CalculateTaxAmount(items) ==
    IF items = <<>> THEN 0
    ELSE Head(items).tax_amount + CalculateTaxAmount(Tail(items))

\* variant: the validator of total_amount also sees discount_amount
ValuesWithDiscount(body) ==
    [items |-> body.items, subtotal |-> CalculateSubtotal(body.items),
     tax_amount |-> CalculateTaxAmount(body.items),
     discount_amount |-> body.discount_amount]

\* The `values` handed to the validator of total_amount: the fields
\* declared before total_amount in InvoiceBase, already validated.
\* discount_amount and discount_percentage are declared after it, so they
\* are not in `values` yet.
ValuesBeforeTotalAmount(body) ==
    [items |-> body.items, subtotal |-> CalculateSubtotal(body.items),
     tax_amount |-> CalculateTaxAmount(body.items)]

\* InvoiceBase.calculate_total_amount(v, values)
CalculateTotalAmount(values) ==
    LET subtotal == Get(values, "subtotal", 0)
        tax_amount == Get(values, "tax_amount", 0)
        discount_amount == Get(values, "discount_amount", 0)
    IN  subtotal + tax_amount - discount_amount

\* InvoiceCreate's field constraints and validate_due_date; a body that
\* fails them never reaches the handler
InvoiceAccepted(body) ==
    /\ body.due_date >= body.issue_date
    /\ Len(body.items) >= 1
    /\ \A i \in DOMAIN body.items : ItemAccepted(body.items[i])
    /\ body.discount_amount >= 0
    /\ body.discount_percentage >= 0
    /\ body.discount_percentage <= 100

\* invoice_data.dict() of an accepted body
InvoiceDict(body) ==
    LET values == ValuesBeforeTotalAmount(body)
    IN  [customer_id |-> body.customer_id, issue_date |-> body.issue_date,
         due_date |-> body.due_date, status |-> body.status,
         payment_status |-> body.payment_status, items |-> body.items,
         subtotal |-> values.subtotal, tax_amount |-> values.tax_amount,
         total_amount |-> CalculateTotalAmount(values),
         discount_amount |-> body.discount_amount,
         discount_percentage |-> body.discount_percentage]

\* db.<collection>.find_one({"id": id, "user_id": u}) found a document
Exists(collection, id, u) ==
    \E j \in DOMAIN collection :
        collection[j].id = id /\ collection[j].user_id = u

\* The response and the invoices collection after create_invoice by user
\* u; f is whether the store is down.
CreateInvoice(u, body, f) ==
    IF ~InvoiceAccepted(body)
    THEN [response |-> HttpError(422), invoices |-> invoices]
    ELSE IF Raises(f, 1)
    THEN [response |-> CatchInternalError(Raised), invoices |-> invoices]
    ELSE IF ~Exists(customers, body.customer_id, u)
    THEN [response |-> HttpError(400), invoices |-> invoices]
    ELSE LET invoice_dict ==
                 InvoiceDict(body) @@
                 [id |-> GenerateUuid(invoices), user_id |-> u,
                  created_at |-> Today]
         IN  [response |-> Returned(invoice_dict),
              invoices |-> InsertOne(invoices, invoice_dict)]

\* {"$set": update_data} on one document: the fields of update_data
\* replace or extend the document's
SetFields(doc, update_data) ==
    [k \in DOMAIN doc \cup DOMAIN update_data |->
        IF k \in DOMAIN update_data THEN update_data[k] ELSE doc[k]]

\* db.invoices.update_one({"id": id, "user_id": u}, {"$set": update_data})
UpdateOne(collection, id, u, update_data) ==
    LET first == CHOOSE j \in DOMAIN collection :
                     /\ collection[j].id = id /\ collection[j].user_id = u
                     /\ \A k \in 1..(j - 1) :
                            ~(collection[k].id = id /\ collection[k].user_id = u)
    IN  IF Exists(collection, id, u)
        THEN [collection EXCEPT ![first] = SetFields(@, update_data)]
        ELSE collection

\* InvoiceUtils.update_invoice_status: the status that follows from the
\* payment status and the due date
NewStatus(invoice) ==
    IF invoice.payment_status = "paid" THEN "paid"
    ELSE IF Today > invoice.due_date THEN "overdue"
    ELSE IF invoice.status = "draft" /\ invoice.payment_status = "pending"
    THEN "sent"
    ELSE invoice.status

\* InvoiceUtils.update_invoice_status(invoice_id, user_id) on a collection
UpdateInvoiceStatus(collection, id, u) ==
    IF ~Exists(collection, id, u) THEN collection
    ELSE LET invoice == CHOOSE d \in {collection[j] : j \in DOMAIN collection} :
                            d.id = id /\ d.user_id = u
         IN  IF NewStatus(invoice) # invoice.status
             THEN UpdateOne(collection, id, u, [status |-> NewStatus(invoice)])
             ELSE collection

\* The response and the invoices collection after update_invoice by user
\* u; update_data is invoice_update.dict(exclude_unset=True), a record of
\* the fields the client sent.  No field is checked against the store.
UpdateInvoice(u, invoice_id, update_data, f) ==
    IF Raises(f, 1)
    THEN [response |-> CatchInternalError(Raised), invoices |-> invoices]
    ELSE IF ~Exists(invoices, invoice_id, u)
    THEN [response |-> HttpError(404), invoices |-> invoices]
    ELSE IF DOMAIN update_data = {}
    THEN [response |-> Returned("No changes to update"), invoices |-> invoices]
    ELSE LET updated == UpdateInvoiceStatus(
                            UpdateOne(invoices, invoice_id, u, update_data),
                            invoice_id, u)
         IN  [response |-> Returned("Invoice updated successfully"),
              invoices |-> updated]

\* db.<collection>.delete_one({"id": id, "user_id": u})
DeleteOne(collection, id, u) ==
    LET first == CHOOSE j \in DOMAIN collection :
                     /\ collection[j].id = id /\ collection[j].user_id = u
                     /\ \A k \in 1..(j - 1) :
                            ~(collection[k].id = id /\ collection[k].user_id = u)
    IN  IF Exists(collection, id, u)
        THEN [j \in 1..(Len(collection) - 1) |->
                 IF j < first THEN collection[j] ELSE collection[j + 1]]
        ELSE collection

\* The response and the invoices collection after delete_invoice by user u.
DeleteInvoice(u, invoice_id, f) ==
    IF Raises(f, 1)
    THEN [response |-> CatchInternalError(Raised), invoices |-> invoices]
    ELSE IF ~Exists(invoices, invoice_id, u)
    THEN [response |-> HttpError(404), invoices |-> invoices]
    ELSE [response |-> Returned("Invoice deleted successfully"),
          invoices |-> DeleteOne(invoices, invoice_id, u)]

\* db.invoices.update_many({"id": {"$in": ids}, "user_id": u}, {"$set": ...})
UpdateMany(collection, ids, u, update_data) ==
    [j \in DOMAIN collection |->
        IF collection[j].id \in ids /\ collection[j].user_id = u
        THEN SetFields(collection[j], update_data)
        ELSE collection[j]]

\* db.invoices.delete_many({"id": {"$in": ids}, "user_id": u})
DeleteMany(collection, ids, u) ==
    SelectSeq(collection, LAMBDA d : ~(d.id \in ids /\ d.user_id = u))

BulkActions == {"mark_paid", "mark_sent", "delete", "send_reminder"}

\* The response and the invoices collection after bulk_invoice_actions by
\* user u; any other action changes nothing and still succeeds.
BulkInvoiceActions(u, invoice_ids, action, f) ==
    IF invoice_ids = {}
    THEN [response |-> HttpError(422), invoices |-> invoices]
    ELSE IF Raises(f, 1)
    THEN [response |-> CatchInternalError(Raised), invoices |-> invoices]
    ELSE LET after ==
                 IF action = "mark_paid"
                 THEN UpdateMany(invoices, invoice_ids, u,
                                 [payment_status |-> "paid", status |-> "paid"])
                 ELSE IF action = "mark_sent"
                 THEN UpdateMany(invoices, invoice_ids, u, [status |-> "sent"])
                 ELSE IF action = "delete"
                 THEN DeleteMany(invoices, invoice_ids, u)
                 ELSE invoices
         IN  [response |-> Returned("Bulk action completed successfully"),
              invoices |-> after]

\* The response and the customers collection after create_customer by user
\* u: a second customer with the same email is refused.
CreateCustomer(u, body, f) ==
    IF Raises(f, 1)
    THEN [response |-> CatchInternalError(Raised), customers |-> customers]
    ELSE IF /\ body.email # None
            /\ \E j \in DOMAIN customers :
                   customers[j].email = body.email /\ customers[j].user_id = u
    THEN [response |-> HttpError(400), customers |-> customers]
    ELSE LET customer_dict ==
                 [id |-> GenerateUuid(customers), user_id |-> u,
                  name |-> body.name, email |-> body.email,
                  created_at |-> Today]
         IN  [response |-> Returned(customer_dict),
              customers |-> InsertOne(customers, customer_dict)]

\* db.invoices.count_documents({"customer_id": c, "user_id": u})
CountInvoices(c, u) ==
    Len(SelectSeq(invoices, LAMBDA inv : inv.customer_id = c /\ inv.user_id = u))

\* The response and the customers collection after delete_customer by user
\* u: a customer with invoices is kept.
DeleteCustomer(u, customer_id, f) ==
    IF Raises(f, 1)
    THEN [response |-> CatchInternalError(Raised), customers |-> customers]
    ELSE IF CountInvoices(customer_id, u) > 0
    THEN [response |-> HttpError(400), customers |-> customers]
    ELSE IF ~Exists(customers, customer_id, u)
    THEN [response |-> HttpError(404), customers |-> customers]
    ELSE [response |-> Returned("Customer deleted successfully"),
          customers |-> DeleteOne(customers, customer_id, u)]

\* The request bodies of the model.  An email is a pair <<local part,
\* domain>>; None is an absent one.

\* customer ids a client may name: those in use and one more
CustomerIds == 1..(Len(customers) + 1)

\* invoice ids a client may name: those in use (any other id is answered
\* 404 and changes nothing)
InvoiceIds == {invoices[j].id : j \in DOMAIN invoices}

\* bodies of create_invoice: a draft of $100 due in a month, a part-paid
\* invoice of $150 issued 40 days ago with a discount above its total, a
\* body without items
InvoiceBodies ==
    {[customer_id |-> c, issue_date |-> Today, due_date |-> Today + 30,
      status |-> "draft", payment_status |-> "pending",
      items |-> <<NewInvoiceItem(1, 100, <<0, 1>>)>>,
      discount_amount |-> 0, discount_percentage |-> 0]
        : c \in CustomerIds}
    \cup
    {[customer_id |-> c, issue_date |-> Today - 40, due_date |-> Today - 10,
      status |-> "sent", payment_status |-> "partial",
      items |-> <<NewInvoiceItem(2, 50, <<1, 2>>)>>,
      discount_amount |-> 500, discount_percentage |-> 100]
        : c \in CustomerIds}
    \cup
    {[customer_id |-> 1, issue_date |-> Today, due_date |-> Today,
      status |-> "draft", payment_status |-> "pending", items |-> <<>>,
      discount_amount |-> 0, discount_percentage |-> 0]}

\* bodies of update_invoice, as the fields the client sent
InvoiceUpdates ==
    {<<>>, [payment_status |-> "paid", discount_amount |-> 500]}
    \cup {[customer_id |-> c] : c \in CustomerIds}

CustomerBodies ==
    {[name |-> "Asha", email |-> None],
     [name |-> "Ravi", email |-> <<"ravi", "example.com">>]}

\* The requests of the invoice and customer routes by the users U.  req
\* and resp are kept for the reporting request under observation: the
\* responses of the writers go to their own callers.  max is the number
\* of documents the collection may hold in the specification.
CreateInvoiceRequest(U, max) ==
    /\ Len(invoices) < max
    /\ \E u \in U, body \in InvoiceBodies :
        /\ invoices' = CreateInvoice(u, body, 0).invoices
        /\ UNCHANGED <<customers, reports, business_context_cache, utcnow, req, resp>>

UpdateInvoiceRequest(U) ==
    \E u \in U, invoice_id \in InvoiceIds, update_data \in InvoiceUpdates :
        /\ invoices' = UpdateInvoice(u, invoice_id, update_data, 0).invoices
        /\ UNCHANGED <<customers, reports, business_context_cache, utcnow, req, resp>>

DeleteInvoiceRequest(U) ==
    \E u \in U, invoice_id \in InvoiceIds :
        /\ invoices' = DeleteInvoice(u, invoice_id, 0).invoices
        /\ UNCHANGED <<customers, reports, business_context_cache, utcnow, req, resp>>

BulkInvoiceActionsRequest(U) ==
    \E u \in U, invoice_ids \in SUBSET InvoiceIds, action \in BulkActions :
        /\ invoices' = BulkInvoiceActions(u, invoice_ids, action, 0).invoices
        /\ UNCHANGED <<customers, reports, business_context_cache, utcnow, req, resp>>

CreateCustomerRequest(U, max) ==
    /\ Len(customers) < max
    /\ \E u \in U, body \in CustomerBodies :
        /\ customers' = CreateCustomer(u, body, 0).customers
        /\ UNCHANGED <<invoices, reports, business_context_cache, utcnow, req, resp>>

DeleteCustomerRequest(U) ==
    \E u \in U, customer_id \in CustomerIds :
        /\ customers' = DeleteCustomer(u, customer_id, 0).customers
        /\ UNCHANGED <<invoices, reports, business_context_cache, utcnow, req, resp>>

\* a store with no documents yet
InitWriters ==
    /\ invoices = <<>>
    /\ customers = <<>>
    /\ reports = <<>>
    /\ business_context_cache = EmptyCache
    /\ utcnow = 0
    /\ req = NoRequest
    /\ resp = NoRequest

NextWriters ==
    \/ CreateInvoiceRequest(Users, MaxStoredInvoices)
    \/ UpdateInvoiceRequest(Users)
    \/ DeleteInvoiceRequest(Users)
    \/ BulkInvoiceActionsRequest(Users)
    \/ CreateCustomerRequest(Users, MaxStoredCustomers)
    \/ DeleteCustomerRequest(Users)

SpecWriters == InitWriters /\ [][NextWriters]_vars


----------------------------------------------------------------------------
(* One reporting request of user u1 and, after it, the writes of the other *)
(* user, who holds at most one invoice and one customer at a time          *)

\* invoices of the requesting user in the data set
MaxIsolationInvoices == 1

\* what create_invoice stored on day d for a $100 invoice of user u for
\* customer c
StoredInvoice(id, u, c, payment_status, d) ==
    InvoiceDict([customer_id |-> c, issue_date |-> d, due_date |-> d + 30,
                 status |-> IF payment_status = "paid" THEN "paid" ELSE "draft",
                 payment_status |-> payment_status,
                 items |-> <<NewInvoiceItem(1, 100, <<0, 1>>)>>,
                 discount_amount |-> 0, discount_percentage |-> 0])
    @@ [id |-> id, user_id |-> u, created_at |-> d]

\* what create_customer stored on day d
StoredCustomer(id, u, d) ==
    [id |-> id, user_id |-> u, name |-> <<"name", id>>, email |-> None,
     created_at |-> d]

\* invoice x of u1 in the data set numbered t: paid for odd x, pending for
\* even x, stored on day (x - 1) \div 2
OwnInvoices(t, first_id) ==
    [i \in DOMAIN t |->
        StoredInvoice(first_id + i - 1, "u1", 1,
                      IF t[i] % 2 = 1 THEN "paid" ELSE "pending",
                      (t[i] - 1) \div 2)]

\* u1 and u2 have a customer each; u2 has at most one invoice, paid on day
\* 0, and u1 up to MaxIsolationInvoices
InitIsolation ==
    /\ customers = <<StoredCustomer(1, "u1", 0), StoredCustomer(2, "u2", 0)>>
    /\ \E m \in 0..1, n \in 0..MaxIsolationInvoices :
          \E t \in NonDecreasing(n, 2 * (MaxDay + 1)) :
              invoices = [i \in 1..m |-> StoredInvoice(1, "u2", 2, "paid", 0)]
                         \o OwnInvoices(t, m + 1)
    /\ reports = <<>>
    /\ business_context_cache = EmptyCache
    /\ utcnow = 0
    /\ req = NoRequest
    /\ resp = NoRequest

\* the calculators, the overview, the KPIs and the three charts
ReportingOperations ==
    {"financial", "sales", "customer", "overview", "kpi",
     "revenue_trend", "invoice_status", "top_customers"}

\* what the caller of a reporting operation receives from an answering
\* store
Reporting(op, u, s, e) ==
    CASE op = "financial" -> GetFinancialMetrics(u, s, e, 0)
      [] op = "sales" -> GetSalesMetrics(u, s, e, 0)
      [] op = "customer" -> GetCustomerMetrics(u, s, e, 0)
      [] op = "overview" -> GenerateBusinessOverview(u, s, e, 0, 0, 0)
      [] op = "kpi" -> GetKpiMetrics(u, s, e, 0, 0)
      [] OTHER -> GenerateChartData(u, op, s, e, 0).value

\* a caller awaits one of the reporting operations for user u
ReportingRequest(U) ==
    /\ req = NoRequest
    /\ \E op \in ReportingOperations, u \in U, s \in Days, e \in Days :
        /\ s <= e
        /\ req' = Request(op, u, s, e, 0)
        /\ resp' = Returned(Reporting(op, u, s, e))
        /\ UNCHANGED <<invoices, customers, reports, business_context_cache, utcnow>>

\* documents of user u in a collection
CountOf(collection, u) == Len(SelectSeq(collection, LAMBDA d : d.user_id = u))

\* the users other than the one whose request is under observation
Others == IF req = NoRequest THEN {} ELSE Users \ {req.user_id}

NextIsolation ==
    \/ ReportingRequest({"u1"})
    \/ CreateInvoiceRequest(Others, CountOf(invoices, "u1") + 1)
    \/ DeleteInvoiceRequest(Others)
    \/ BulkInvoiceActionsRequest(Others)
    \/ CreateCustomerRequest(Others, CountOf(customers, "u1") + 1)
    \/ DeleteCustomerRequest(Others)

SpecIsolation == InitIsolation /\ [][NextIsolation]_vars


----------------------------------------------------------------------------
(* The business-context cache of the assistant                             *)
(*                                                                         *)
(* get_business_context takes the time and looks into the cache before its *)
(* first await, reads the store over several awaits and writes the cache   *)
(* entry last: a call is a step that begins it and, on a miss, a step that *)
(* completes it, with the clock and the writers free to move in between.   *)
(* The reads of one call are taken together at its completion.             *)

\* self.cache_expiry, in seconds
cache_expiry == 300

\* the latest time of the clock, in seconds
MaxClock == 300

\* variant: one key for every user
CacheKeyAnyUser(user_id) == <<"business_context_", "">>

\* f"business_context_{user_id}"
CacheKey(user_id) == <<"business_context_", user_id>>

\* variant: an entry of exactly cache_expiry seconds is still served
CacheHitInclusive(cache_key, current_time) ==
    /\ cache_key \in DOMAIN business_context_cache
    /\ current_time - business_context_cache[cache_key].timestamp <= cache_expiry

\* cache_key in self.business_context_cache and current_time - timestamp <
\* timedelta(seconds=self.cache_expiry)
CacheHit(cache_key, current_time) ==
    /\ cache_key \in DOMAIN business_context_cache
    /\ current_time - business_context_cache[cache_key].timestamp < cache_expiry

\* BusinessContext()
DefaultBusinessContext ==
    [total_customers |-> 0, total_invoices |-> 0, total_revenue |-> 0,
     pending_payments |-> 0, overdue_amount |-> 0, top_customers |-> <<>>,
     recent_trends |-> <<>>, business_metrics |-> <<>>]

\* {"created_at": {"$gte": t}} for a time t in seconds; the model keeps
\* created_at to the day
CreatedSince(doc, t) == doc.created_at * SecondsPerDay >= t

\* _calculate_trends(user_id): the last 30 days, {} when the store fails
CalculateTrends(user_id, f) ==
    IF Raises(f, 3) THEN <<>>
    ELSE LET thirty_days_ago == utcnow - 30 * SecondsPerDay
             recent_invoices ==
                 SelectSeq(invoices, LAMBDA inv :
                     inv.user_id = user_id /\ CreatedSince(inv, thirty_days_ago))
             recent_customers ==
                 SelectSeq(customers, LAMBDA c :
                     c.user_id = user_id /\ CreatedSince(c, thirty_days_ago))
         IN  [recent_invoices_count |-> Len(recent_invoices),
              recent_customers_count |-> Len(recent_customers),
              recent_revenue |->
                  SumAmount(SelectSeq(recent_invoices,
                      LAMBDA inv : inv.payment_status = "paid"))]

\* datetime.utcnow().replace(day=1, hour=0, ...), as a day number
CurrentMonth == DayNumber(<<IsoFormat(Today)[1], IsoFormat(Today)[2], 1>>)

\* (current_month - timedelta(days=32)).replace(day=1), as a day number
PreviousMonthStart ==
    LET previous_month == IsoFormat(CurrentMonth - 32)
    IN  DayNumber(<<previous_month[1], previous_month[2], 1>>)

\* the rate both growth helpers return for the counts or sums of the
\* current and the previous month
MonthGrowth(current, previous) ==
    IF previous = 0 THEN (IF current > 0 THEN Num(100) ELSE Num(0))
    ELSE Frac((current - previous) * 100, previous)

\* _calculate_customer_growth(user_id): 0.0 when the store fails
CalculateCustomerGrowth(user_id, f) ==
    IF Raises(f, 5) THEN Num(0)
    ELSE LET current_month_customers ==
                 Len(SelectSeq(customers, LAMBDA c :
                     c.user_id = user_id /\ c.created_at >= CurrentMonth))
             previous_month_customers ==
                 Len(SelectSeq(customers, LAMBDA c :
                     /\ c.user_id = user_id
                     /\ c.created_at >= PreviousMonthStart
                     /\ c.created_at < CurrentMonth))
         IN  MonthGrowth(current_month_customers, previous_month_customers)

\* _calculate_revenue_growth(user_id): 0.0 when the store fails
CalculateRevenueGrowth(user_id, f) ==
    IF Raises(f, 7) THEN Num(0)
    ELSE LET current_month_revenue ==
                 SumAmount(SelectSeq(invoices, LAMBDA inv :
                     /\ inv.user_id = user_id
                     /\ inv.created_at >= CurrentMonth
                     /\ inv.payment_status = "paid"))
             previous_month_revenue ==
                 SumAmount(SelectSeq(invoices, LAMBDA inv :
                     /\ inv.user_id = user_id
                     /\ inv.created_at >= PreviousMonthStart
                     /\ inv.created_at < CurrentMonth
                     /\ inv.payment_status = "paid"))
         IN  MonthGrowth(current_month_revenue, previous_month_revenue)

\* customer_revenue over the paid invoices, as the items of the dict
RECURSIVE CustomerRevenue(_)
CustomerRevenue(docs) ==
    IF docs = <<>> THEN <<>>
    ELSE LET invoice == docs[Len(docs)]
             before == CustomerRevenue(SubSeq(docs, 1, Len(docs) - 1))
         IN  IF invoice.payment_status = "paid"
             THEN AddTo(before, invoice.customer_id, invoice.total_amount)
             ELSE before

\* the five customers of the highest paid revenue that are among the
\* customers read
ContextTopCustomers(all_customers, all_invoices) ==
    LET ranked == Take(SortedDescending(CustomerRevenue(all_invoices)), 5)
        known == SelectSeq(ranked, LAMBDA p :
                     \E j \in DOMAIN all_customers : all_customers[j].id = p[1])
    IN  [i \in DOMAIN known |->
            LET customer == all_customers[
                    CHOOSE j \in DOMAIN all_customers :
                        /\ all_customers[j].id = known[i][1]
                        /\ \A k \in 1..(j - 1) :
                               all_customers[k].id # known[i][1]]
            IN  [id |-> known[i][1], name |-> customer.name,
                 revenue |-> known[i][2]]]

\* The context get_business_context computes for user_id on a miss; f is
\* the query from which the store is down, 0 for an answering store.  A
\* failure of the two reads of the body raises.
ComputeBusinessContext(user_id, f) ==
    IF Raises(f, 1) \/ Raises(f, 2) THEN Raised
    ELSE
    LET all_customers == SelectSeq(customers, LAMBDA c : c.user_id = user_id)
        all_invoices == SelectSeq(invoices, LAMBDA inv : inv.user_id = user_id)
        paid == SelectSeq(all_invoices, LAMBDA inv : inv.payment_status = "paid")
        total_invoices == Len(all_invoices)
        total_revenue == SumAmount(paid)
    IN  Returned(
        [total_customers |-> Len(all_customers),
         total_invoices |-> total_invoices,
         total_revenue |-> total_revenue,
         pending_payments |->
             SumAmount(SelectSeq(all_invoices,
                 LAMBDA inv : inv.payment_status = "pending")),
         overdue_amount |->
             SumAmount(SelectSeq(all_invoices,
                 LAMBDA inv : inv.status = "overdue")),
         top_customers |-> ContextTopCustomers(all_customers, all_invoices),
         recent_trends |-> CalculateTrends(user_id, f),
         business_metrics |->
             [average_invoice_value |->
                  IF total_invoices > 0 THEN Frac(total_revenue, total_invoices)
                  ELSE Num(0),
              payment_rate |->
                  IF total_invoices > 0
                  THEN Frac(Len(paid) * 100, total_invoices) ELSE Num(0),
              customer_growth |-> CalculateCustomerGrowth(user_id, f),
              revenue_growth |-> CalculateRevenueGrowth(user_id, f)]])

\* the store answers, is down, or goes down after the two reads of the body
ContextFailPoints == {0, 1, 3}

\* whether a call of get_business_context is between its cache miss and
\* its return
Reading == req.op = "get_business_context" /\ req.pc = "reading"

\* A caller awaits get_business_context(u): the time is taken and the
\* cache consulted; a hit returns the entry's data at once.
GetBusinessContextBegin(U) ==
    /\ ~Reading
    /\ \E u \in U :
        LET cache_key == CacheKey(u)
            current_time == utcnow
        IN  IF CacheHit(cache_key, current_time)
            THEN /\ req' = [op |-> "get_business_context", user_id |-> u,
                            current_time |-> current_time, failAt |-> 0,
                            pc |-> "done"]
                 /\ resp' = Returned(business_context_cache[cache_key].data)
            ELSE \E f \in ContextFailPoints :
                 /\ req' = [op |-> "get_business_context", user_id |-> u,
                            current_time |-> current_time, failAt |-> f,
                            pc |-> "reading"]
                 /\ resp' = NoRequest
    /\ UNCHANGED <<invoices, customers, reports, business_context_cache, utcnow>>

\* The call that missed has read the store: the context is cached under
\* the time the call began with and returned; an exception gives
\* BusinessContext() and leaves the cache alone.
GetBusinessContextComplete ==
    /\ Reading
    /\ LET context == ComputeBusinessContext(req.user_id, req.failAt)
       IN  IF context.raised
           THEN /\ resp' = Returned(DefaultBusinessContext)
                /\ UNCHANGED business_context_cache
           ELSE /\ resp' = Returned(context.value)
                /\ business_context_cache' =
                       (CacheKey(req.user_id) :>
                            [data |-> context.value,
                             timestamp |-> req.current_time])
                       @@ business_context_cache
    /\ req' = [req EXCEPT !.pc = "done"]
    /\ UNCHANGED <<invoices, customers, reports, utcnow>>

\* the steps the clock is seen to take: half the expiry, and one second
\* less than the expiry
TickSteps == {cache_expiry \div 2, cache_expiry - 1}

\* time passes
Tick ==
    \E d \in TickSteps :
        /\ utcnow + d <= MaxClock
        /\ utcnow' = utcnow + d
        /\ UNCHANGED <<invoices, customers, reports, business_context_cache, req, resp>>

\* u1 has one customer and a pending invoice, u2 two customers and a paid
\* invoice; nothing is cached
InitCache ==
    /\ customers = <<StoredCustomer(1, "u1", 0), StoredCustomer(2, "u2", 0),
                     StoredCustomer(3, "u2", 0)>>
    /\ invoices = <<StoredInvoice(1, "u1", 1, "pending", 0),
                    StoredInvoice(2, "u2", 2, "paid", 0)>>
    /\ reports = <<>>
    /\ business_context_cache = EmptyCache
    /\ utcnow = 0
    /\ req = NoRequest
    /\ resp = NoRequest

NextCache ==
    \/ GetBusinessContextBegin(Users)
    \/ GetBusinessContextComplete
    \/ Tick
    \/ BulkInvoiceActionsRequest(Users)

SpecCache == InitCache /\ [][NextCache]_vars


----------------------------------------------------------------------------
(* get_customer_metrics among the customer writers                         *)
(*                                                                         *)
(* The calculator awaits four queries one after the other; the event loop  *)
(* may run other requests at each await.  Here a call is four steps, each  *)
(* keeping what its query returned, and create_customer and                *)
(* delete_customer requests of user u1 run in between.                     *)

MaxConcurrentCustomers == 1

\* the call of get_customer_metrics that is at the query named pc
CustomerMetricsAt(pc) == req.op = "customer" /\ req.pc = pc

\* all_customers = await db.customers.find({"user_id": user_id})
ReadAllCustomers ==
    /\ req = NoRequest
    /\ \E u \in Users, s \in Days, e \in Days :
        /\ s <= e
        /\ req' = Request("customer", u, s, e, 0)
                      @@ [pc |-> "new_customers",
                          all_customers |-> FindCustomers(u)]
    /\ UNCHANGED <<invoices, customers, reports, business_context_cache, utcnow, resp>>

\* new_customers = await db.customers.find({... "created_at": window})
ReadNewCustomers ==
    /\ CustomerMetricsAt("new_customers")
    /\ req' = [pc |-> "invoices",
               new_customers |->
                   FindNewCustomers(req.user_id, req.start_date, req.end_date)]
              @@ req
    /\ UNCHANGED <<invoices, customers, reports, business_context_cache, utcnow, resp>>

\* invoices = await db.invoices.find({... "payment_status": "paid"})
ReadPaidInvoices ==
    /\ CustomerMetricsAt("invoices")
    /\ req' = [pc |-> "period_invoices",
               paid |-> FindAllPaidInvoices(req.user_id)] @@ req
    /\ UNCHANGED <<invoices, customers, reports, business_context_cache, utcnow, resp>>

\* period_invoices = await db.invoices.find({... "created_at": window}),
\* and the record is returned
ReadPeriodInvoices ==
    /\ CustomerMetricsAt("period_invoices")
    /\ req' = [pc |-> "done"] @@ req
    /\ resp' = Returned(CustomerMetricsOf(
                   req.all_customers, req.new_customers, req.paid,
                   FindInvoices(req.user_id, req.start_date, req.end_date)))
    /\ UNCHANGED <<invoices, customers, reports, business_context_cache, utcnow>>

\* u1 has no customer or one, with a paid invoice; u2 has a customer
InitConcurrent ==
    /\ \E n \in 0..1 :
        /\ customers = [i \in 1..n |-> StoredCustomer(1, "u1", 0)]
                       \o <<StoredCustomer(n + 1, "u2", 0)>>
        /\ invoices = [i \in 1..n |-> StoredInvoice(1, "u1", 1, "paid", 0)]
    /\ reports = <<>>
    /\ business_context_cache = EmptyCache
    /\ utcnow = 0
    /\ req = NoRequest
    /\ resp = NoRequest

NextConcurrent ==
    \/ ReadAllCustomers
    \/ ReadNewCustomers
    \/ ReadPaidInvoices
    \/ ReadPeriodInvoices
    \/ CreateCustomerRequest({"u1"}, CountOf(customers, "u2") + MaxConcurrentCustomers)
    \/ DeleteCustomerRequest({"u1"})

SpecConcurrent == InitConcurrent /\ [][NextConcurrent]_vars


----------------------------------------------------------------------------
(* What the data set holds, stated over the set of stored documents        *)

RECURSIVE SumOver(_, _)
SumOver(I, docs) ==
    IF I = {} THEN 0
    ELSE LET i == CHOOSE j \in I : TRUE
         IN  docs[i].total_amount + SumOver(I \ {i}, docs)

\* the stored invoices of user u created on days s..e
InvoicesOf(u, s, e) ==
    {i \in DOMAIN invoices :
        /\ invoices[i].user_id = u
        /\ s <= invoices[i].created_at
        /\ invoices[i].created_at <= e}

PaidOf(u, s, e) == {i \in InvoicesOf(u, s, e) : invoices[i].payment_status = "paid"}
UnpaidOf(u, s, e) == InvoicesOf(u, s, e) \ PaidOf(u, s, e)

\* revenue of user u in the window s..e
Revenue(u, s, e) == SumOver(PaidOf(u, s, e), invoices)

IsFinancial == req.op = "financial"
IsGrowth == req.op = "growth"
\* the first query of the request was answered
FirstQueryAnswered == ~Raises(req.failAt, 1)

----------------------------------------------------------------------------
(* Claims on the financial calculator and the growth routine (SpecFin)     *)

\* C1: the collection_rate returned by get_financial_metrics lies in
\* [0, 100], and it is 0 whenever the returned total_invoices is 0.
C1_CollectionRateRange ==
    IsFinancial =>
        LET m == resp.value
        IN  /\ FracLeq(Num(0), m.collection_rate)
            /\ FracLeq(m.collection_rate, Num(100))
            /\ (m.total_invoices = 0 => m.collection_rate = Num(0))

\* a window with two paid invoices out of three: the rate is strictly inside
C1_Witness ==
    /\ IsFinancial
    /\ resp.value.total_invoices = 3
    /\ resp.value.paid_invoices = 2
    /\ FracLt(Num(0), resp.value.collection_rate)
    /\ FracLt(resp.value.collection_rate, Num(100))

\* C2: average_invoice_value is total_revenue / paid_invoices when
\* paid_invoices > 0 and 0 when paid_invoices = 0.
C2_AverageInvoiceValue ==
    IsFinancial =>
        LET m == resp.value
        IN  IF m.paid_invoices > 0
            THEN m.average_invoice_value[1] * m.paid_invoices * m.total_revenue[2]
                    = m.total_revenue[1] * m.average_invoice_value[2]
            ELSE m.average_invoice_value = Num(0)

\* two paid invoices of different amounts and an unpaid one in the window
C2_Witness ==
    /\ IsFinancial
    /\ resp.value.paid_invoices = 2
    /\ resp.value.total_invoices = 3
    /\ resp.value.total_revenue = Num(300)
    /\ resp.value.average_invoice_value = Num(150)

\* the invoices of the window are exactly $100 paid, $200 paid, $50 pending
ExampleWindow ==
    LET w == InvoicesOf(req.user_id, req.start_date, req.end_date)
        Has(a, p) == \E i \in w :
            invoices[i].total_amount = a /\ invoices[i].payment_status = p
    IN  /\ Cardinality(w) = 3
        /\ Has(100, "paid") /\ Has(200, "paid") /\ Has(50, "pending")

\* total_revenue sums the paid invoices of the window and total_outstanding
\* the ones that are not paid
SumsOfWindow ==
    LET u == req.user_id
        s == req.start_date
        e == req.end_date
    IN  /\ resp.value.total_revenue = Num(Revenue(u, s, e))
        /\ resp.value.total_outstanding = Num(SumOver(UnpaidOf(u, s, e), invoices))

\* C3 as stated: on the example get_financial_metrics yields
\* total_revenue 300, total_outstanding 50, collection_rate 66.67 and
\* average_invoice_value 150; in general the two sums are as above.
C3_Original ==
    (IsFinancial /\ FirstQueryAnswered) =>
        /\ SumsOfWindow
        /\ ExampleWindow =>
              /\ resp.value.total_revenue = Num(300)
              /\ resp.value.total_outstanding = Num(50)
              /\ resp.value.collection_rate = Frac(6667, 100)
              /\ resp.value.average_invoice_value = Num(150)

\* C3 amended: as C3, with collection_rate the unrounded 200/3 (66.666...).
C3_ExampleAndSums ==
    (IsFinancial /\ FirstQueryAnswered) =>
        /\ SumsOfWindow
        /\ ExampleWindow =>
              /\ resp.value.total_revenue = Num(300)
              /\ resp.value.total_outstanding = Num(50)
              /\ resp.value.collection_rate = Frac(200, 3)
              /\ resp.value.average_invoice_value = Num(150)

C3_Witness ==
    /\ IsFinancial
    /\ FirstQueryAnswered
    /\ ExampleWindow
    /\ resp.value.collection_rate = Frac(200, 3)

\* C4: with both windows read, _calculate_growth_rate returns 100 when the
\* previous window's revenue is 0 and the current one's is positive, 0 when
\* both are 0, and (current - previous) / previous * 100 otherwise.
C4_GrowthRate ==
    (IsGrowth /\ req.failAt = 0) =>
        LET s == req.start_date
            e == req.end_date
            current == Revenue(req.user_id, s, e)
            previous == Revenue(req.user_id, s - 1 - (e - s), s - 1)
            g == resp.value
        IN  /\ (previous = 0 /\ current > 0) => g = Num(100)
            /\ (previous = 0 /\ current = 0) => g = Num(0)
            /\ previous # 0 =>
                  g[1] * previous = (current - previous) * 100 * g[2]

\* revenue fell from the previous window to the current one, neither is 0
C4_Witness ==
    /\ IsGrowth
    /\ req.failAt = 0
    /\ Revenue(req.user_id, req.start_date, req.end_date) > 0
    /\ Revenue(req.user_id, req.start_date - 1 - (req.end_date - req.start_date),
               req.start_date - 1) > 0
    /\ FracLt(resp.value, Num(0))

\* C5 as stated: the growth_rate field of get_financial_metrics is what
\* _calculate_growth_rate returns for the same user and window, also when
\* the window holds no invoice.
C5_Original ==
    IsFinancial =>
        resp.value.growth_rate =
            CalculateGrowthRate(req.user_id, req.start_date, req.end_date,
                                Shift(req.failAt, 1))

\* C5 amended: the field is the routine's value when the window holds an
\* invoice of the user (and the first query was answered), and 0 otherwise.
C5_GrowthField ==
    IsFinancial =>
        IF FirstQueryAnswered
           /\ InvoicesOf(req.user_id, req.start_date, req.end_date) # {}
        THEN resp.value.growth_rate =
                CalculateGrowthRate(req.user_id, req.start_date, req.end_date,
                                    Shift(req.failAt, 1))
        ELSE resp.value.growth_rate = Num(0)

\* both windows hold revenue and the field carries the change between them
C5_Witness ==
    /\ IsFinancial
    /\ req.failAt = 0
    /\ Revenue(req.user_id, req.start_date, req.end_date) > 0
    /\ Revenue(req.user_id, req.start_date - 1 - (req.end_date - req.start_date),
               req.start_date - 1) > 0
    /\ resp.value.growth_rate # Num(0)

----------------------------------------------------------------------------
(* Claims on the sales calculator and the trend series (SpecSales)         *)

IsSales == req.op = "sales"
IsTrend == req.op = "trend"

\* C6 as stated: for start_date <= end_date the sales_trend returned by
\* get_sales_metrics has (end_date - start_date).days + 1 entries, also in
\* a window without paid invoices.
C6_Original ==
    (IsSales /\ req.failAt = 0 /\ req.start_date <= req.end_date) =>
        Len(resp.value.sales_trend) = req.end_date - req.start_date + 1

\* C6 amended: with the store answering and start_date <= end_date, the
\* series has days + 1 entries when the window holds a paid invoice of the
\* user, and is empty when it holds none.
C6_TrendLength ==
    (IsSales /\ req.failAt = 0 /\ req.start_date <= req.end_date) =>
        Len(resp.value.sales_trend) =
            IF PaidOf(req.user_id, req.start_date, req.end_date) # {}
            THEN req.end_date - req.start_date + 1
            ELSE 0

\* a three-day window with a sale on one day: three entries
C6_Witness ==
    /\ IsSales
    /\ req.failAt = 0
    /\ req.end_date - req.start_date = 2
    /\ Cardinality(PaidOf(req.user_id, req.start_date, req.end_date)) = 1
    /\ Len(resp.value.sales_trend) = 3

\* C7: the i-th entry (from 0) of the series of _calculate_sales_trend is
\* dated start_date + i and carries the paid revenue of the user on that
\* day, and with the store answering there is one entry for each day of the
\* window, none skipped or repeated.
C7_TrendSeries ==
    IsTrend =>
        LET t == resp.value
            s == req.start_date
            e == req.end_date
        IN  /\ \A i \in DOMAIN t :
                  /\ t[i].date = IsoFormat(s + i - 1)
                  /\ t[i].sales = Revenue(req.user_id, s + i - 1, s + i - 1)
            /\ \A i, j \in DOMAIN t : i < j => t[i].date # t[j].date
            /\ req.failAt = 0 => Len(t) = (IF s <= e THEN e - s + 1 ELSE 0)

\* window 2024-01-01..2024-01-03 with one $50 sale on 2024-01-02
C7_Witness ==
    /\ IsTrend
    /\ req.start_date = 0 /\ req.end_date = 2
    /\ Len(resp.value) = 3
    /\ resp.value[1].date = <<2024, 1, 1>> /\ resp.value[1].sales = 0
    /\ resp.value[2].date = <<2024, 1, 2>> /\ resp.value[2].sales = 50
    /\ resp.value[3].date = <<2024, 1, 3>> /\ resp.value[3].sales = 0

----------------------------------------------------------------------------
(* Claims on the customer calculator (SpecRanking, SpecCustomers)          *)

IsCustomer == req.op = "customer"

\* the paid invoices of user u for customer c, over all time
PaidFor(u, c) ==
    {i \in DOMAIN invoices :
        /\ invoices[i].user_id = u
        /\ invoices[i].payment_status = "paid"
        /\ invoices[i].customer_id = c}

\* where customer c is first met among the paid invoices of u
FirstSeen(u, c) == CHOOSE i \in PaidFor(u, c) : \A j \in PaidFor(u, c) : i <= j

\* at most five entries, each carrying the lifetime paid revenue of its
\* customer, and equal revenues in first-encountered order
TopCustomersShape(top) ==
    /\ Len(top) <= 5
    /\ \A i \in DOMAIN top :
          /\ PaidFor(req.user_id, top[i].id) # {}
          /\ top[i].value = SumOver(PaidFor(req.user_id, top[i].id), invoices)
    /\ \A i, j \in DOMAIN top :
          (i < j /\ top[i].value = top[j].value) =>
              FirstSeen(req.user_id, top[i].id) < FirstSeen(req.user_id, top[j].id)

\* C8 as stated: top_customers has at most 5 entries, is strictly
\* descending by lifetime paid revenue, and equal revenues appear in
\* first-encountered order.
C8_Original ==
    IsCustomer =>
        LET top == resp.value.top_customers
        IN  /\ TopCustomersShape(top)
            /\ \A i, j \in DOMAIN top : i < j => top[i].value > top[j].value

\* C8 amended: as C8, with the list descending but not strictly (no entry
\* is followed by one of larger revenue; equal revenues are kept).
C8_TopCustomers ==
    IsCustomer =>
        LET top == resp.value.top_customers
        IN  /\ TopCustomersShape(top)
            /\ \A i, j \in DOMAIN top : i < j => top[i].value >= top[j].value

\* six customers with paid revenue, five listed, two of them level
C8_Witness ==
    /\ IsCustomer
    /\ Cardinality({invoices[i].customer_id : i \in DOMAIN invoices}) = 6
    /\ Len(resp.value.top_customers) = 5
    /\ resp.value.top_customers[1].value > resp.value.top_customers[2].value
    /\ resp.value.top_customers[2].value = resp.value.top_customers[3].value

\* C9: with the store answering, total_customers and top_customers are the
\* same for every window over the same data, total_customers counts all
\* customers of the user, new_customers those created in the window and
\* active_customers the distinct customer_ids of invoices created in it.
C9_WindowScope ==
    (IsCustomer /\ req.failAt = 0) =>
        LET m == resp.value
            u == req.user_id
        IN  /\ m.total_customers =
                  Cardinality({i \in DOMAIN customers : customers[i].user_id = u})
            /\ m.new_customers =
                  Cardinality({i \in DOMAIN customers :
                      /\ customers[i].user_id = u
                      /\ req.start_date <= customers[i].created_at
                      /\ customers[i].created_at <= req.end_date})
            /\ m.active_customers =
                  Cardinality({invoices[i].customer_id :
                      i \in InvoicesOf(u, req.start_date, req.end_date)})
            /\ \A s \in Days, e \in Days :
                  LET other == GetCustomerMetrics(u, s, e, 0)
                  IN  /\ other.total_customers = m.total_customers
                      /\ other.top_customers = m.top_customers

\* a window that leaves out a customer, and a paid invoice, of the user
C9_Witness ==
    /\ IsCustomer
    /\ req.failAt = 0
    /\ resp.value.total_customers = 2
    /\ resp.value.new_customers = 1
    /\ resp.value.active_customers = 0
    /\ Len(resp.value.top_customers) = 1

----------------------------------------------------------------------------
(* Claims on the chart data generator (SpecCharts)                         *)

IsChart == req.op = "chart"

\* C10: generate_chart_data raises nothing to its caller, whatever the
\* chart_type, the window and the state of the store, and returns an empty
\* list for a chart_type other than the three it knows.
C10_ChartNeverRaises ==
    IsChart =>
        /\ ~resp.raised
        /\ req.chart_type \notin {"revenue_trend", "invoice_status", "top_customers"}
              => resp.value = <<>>

\* an unknown chart_type answered with the empty list
C10_Witness ==
    /\ IsChart
    /\ req.chart_type = "other"
    /\ ~resp.raised
    /\ resp.value = <<>>

----------------------------------------------------------------------------
(* Claims on the KPI metrics (SpecKpi)                                     *)

IsKpi == req.op = "kpi"

KpiNames ==
    <<"Total Revenue", "Collection Rate", "Average Invoice Value", "New Customers">>

\* C11 as stated: with the store answering, get_kpi_metrics returns exactly
\* four entries, named Total Revenue, Collection Rate, Average Invoice
\* Value and New Customers in that order.
C11_Original ==
    (IsKpi /\ req.failAt = 0 /\ req.customerFailAt = 0) =>
        /\ ~resp.raised
        /\ Len(resp.value) = 4
        /\ \A i \in 1..4 : resp.value[i].name = KpiNames[i]

\* target = value * n / d, by cross multiplication
ScaledBy(target, value, n, d) == target[1] * value[2] * d = value[1] * n * target[2]

\* what C12 says of the entry named name, given the metrics of the request
KpiEntryAsClaimed(k, fm, cm) ==
    IF k.name = "Total Revenue"
    THEN /\ k.value = fm.total_revenue
         /\ ScaledBy(k.target, k.value, 12, 10)
         /\ k.is_good = (fm.growth_rate[1] > 0)
    ELSE IF k.name = "Collection Rate"
    THEN /\ k.value = fm.collection_rate
         /\ k.target = Num(85)
         /\ k.is_good = (fm.collection_rate[1] > 75 * fm.collection_rate[2])
    ELSE IF k.name = "Average Invoice Value"
    THEN /\ k.value = fm.average_invoice_value
         /\ ScaledBy(k.target, k.value, 115, 100)
         /\ k.is_good = (fm.average_invoice_value[1] > 1000 * fm.average_invoice_value[2])
    ELSE /\ k.name = "New Customers"
         /\ k.value = Num(cm.new_customers)
         /\ ScaledBy(k.target, k.value, 125, 100)
         /\ k.is_good = (cm.new_customers > 0)

\* C12 as stated: get_kpi_metrics builds an entry for each of Total
\* Revenue, Collection Rate, Average Invoice Value and New Customers whose
\* target is value * 1.2, the static 85.0, value * 1.15 and value * 1.25
\* and whose is_good is growth_rate > 0, collection_rate > 75,
\* average_invoice_value > 1000 and new_customers > 0 respectively.
C12_Original ==
    IsKpi =>
        LET fm == GetFinancialMetrics(req.user_id, req.start_date, req.end_date,
                                      req.failAt)
            cm == GetCustomerMetrics(req.user_id, req.start_date, req.end_date,
                                     req.customerFailAt)
        IN  /\ ~resp.raised
            /\ \A i \in 1..4 :
                  \E j \in DOMAIN resp.value :
                      /\ resp.value[j].name = KpiNames[i]
                      /\ KpiEntryAsClaimed(resp.value[j], fm, cm)

\* the three entries whose construction succeeds do carry the stated
\* targets and flags; the New Customers entry is the one that cannot be built
KpiBuiltAsClaimed ==
    IsKpi =>
        LET fm == GetFinancialMetrics(req.user_id, req.start_date, req.end_date,
                                      req.failAt)
            cm == GetCustomerMetrics(req.user_id, req.start_date, req.end_date,
                                     req.customerFailAt)
            built == KpiEntries(fm, cm)
        IN  /\ \A i \in 1..3 :
                  /\ ~built[i].raised
                  /\ built[i].value.name = KpiNames[i]
                  /\ KpiEntryAsClaimed(built[i].value, fm, cm)
            /\ built[4].raised

----------------------------------------------------------------------------
(* Claims on the period resolution (SpecDates)                             *)

IsDateRange == req.op = "date_range"

\* C13 as stated: resolving the period custom without an explicit start
\* and end date is rejected with an error, never resolved to a date range.
C13_Original ==
    (IsDateRange /\ req.period = "custom") => resp.raised

\* the last day of month m of year y, as the calendar has it
LastDayOfMonth(y, m) ==
    <<31, 28, 31, 30, 31, 30, 31, 31, 30, 31, 30, 31>>[m]
    + (IF m = 2 /\ y % 4 = 0 /\ (y % 100 # 0 \/ y % 400 = 0) THEN 1 ELSE 0)

\* C14: for the month period the range starts on day 1 of the current
\* month and ends on its last calendar day (28, 29, 30 or 31; Feb 29 in a
\* leap year, Feb 28 otherwise), whatever the current date.
C14_MonthRange ==
    (IsDateRange /\ req.period = "month") =>
        /\ ~resp.raised
        /\ resp.value[1] = <<req.today[1], req.today[2], 1>>
        /\ resp.value[2] =
              <<req.today[1], req.today[2], LastDayOfMonth(req.today[1], req.today[2])>>

\* the last day of February 2024 resolved to Feb 1 .. Feb 29
C14_Witness ==
    /\ IsDateRange
    /\ req.period = "month"
    /\ req.today = <<2024, 2, 29>>
    /\ resp.value = <<<<2024, 2, 1>>, <<2024, 2, 29>>>>

\* dates in calendar order
DateLeq(a, b) ==
    \/ a[1] < b[1]
    \/ a[1] = b[1] /\ a[2] < b[2]
    \/ a[1] = b[1] /\ a[2] = b[2] /\ a[3] <= b[3]

\* C15: for the quarter period the range starts on day 1 of month 1, 4, 7
\* or 10, ends on the last calendar day of the third month of that block,
\* and contains the current date.
C15_QuarterRange ==
    (IsDateRange /\ req.period = "quarter") =>
        /\ ~resp.raised
        /\ \E first \in {1, 4, 7, 10} :
              /\ resp.value[1] = <<req.today[1], first, 1>>
              /\ resp.value[2] =
                    <<req.today[1], first + 2, LastDayOfMonth(req.today[1], first + 2)>>
        /\ DateLeq(resp.value[1], req.today)
        /\ DateLeq(req.today, resp.value[2])

\* the last day of May resolved to the quarter April 1 .. June 30
C15_Witness ==
    /\ IsDateRange
    /\ req.period = "quarter"
    /\ req.today = <<2024, 5, 31>>
    /\ resp.value = <<<<2024, 4, 1>>, <<2024, 6, 30>>>>

----------------------------------------------------------------------------
(* Claims on the three calculators together (SpecCalculators)              *)

\* the customers of user u created in the window s..e
NewCustomersOf(u, s, e) ==
    {i \in DOMAIN customers :
        /\ customers[i].user_id = u
        /\ s <= customers[i].created_at
        /\ customers[i].created_at <= e}

ZeroFinancial(m) ==
    m = [total_revenue |-> <<0, 1>>, total_invoices |-> 0, paid_invoices |-> 0,
         pending_invoices |-> 0, overdue_invoices |-> 0,
         average_invoice_value |-> <<0, 1>>, total_outstanding |-> <<0, 1>>,
         collection_rate |-> <<0, 1>>, growth_rate |-> <<0, 1>>,
         profit_margin |-> <<0, 1>>]

ZeroSales(m) ==
    m = [total_sales |-> <<0, 1>>, sales_count |-> 0,
         average_sale_value |-> <<0, 1>>, top_selling_periods |-> <<>>,
         sales_trend |-> <<>>, conversion_rate |-> <<0, 1>>,
         recurring_revenue |-> <<0, 1>>]

ZeroCustomer(m) ==
    m = [total_customers |-> 0, active_customers |-> 0, new_customers |-> 0,
         customer_retention_rate |-> <<0, 1>>,
         average_customer_value |-> <<0, 1>>, top_customers |-> <<>>,
         customer_segments |-> <<>>, churn_rate |-> <<0, 1>>]

\* the window of the request holds no invoice and no new customer of the user
EmptyWindow ==
    /\ InvoicesOf(req.user_id, req.start_date, req.end_date) = {}
    /\ NewCustomersOf(req.user_id, req.start_date, req.end_date) = {}

\* what C16 and its amendment share: the financial and the sales
\* calculator return, without raising, a record with every field zero or
\* empty when the window holds no invoice (no paid invoice) of the user
ZeroWhenEmpty ==
    /\ (IsFinancial /\ InvoicesOf(req.user_id, req.start_date, req.end_date) = {})
          => (~resp.raised /\ ZeroFinancial(resp.value))
    /\ (IsSales /\ PaidOf(req.user_id, req.start_date, req.end_date) = {})
          => (~resp.raised /\ ZeroSales(resp.value))

\* C16 as stated: each of the three calculators returns, without raising,
\* a record with every field zero or empty when no matching records exist
\* in the window.
C16_Original ==
    /\ ZeroWhenEmpty
    /\ (IsCustomer /\ EmptyWindow) => (~resp.raised /\ ZeroCustomer(resp.value))

\* C16 amended: none of the three calculators raises; the financial and
\* the sales record have every field zero or empty when the window holds no
\* (paid) invoice; the customer record of a window with no invoice and no
\* new customer has new_customers, active_customers and customer_segments
\* zero or empty, while its other fields are not window-scoped.
C16_ZeroDefaults ==
    /\ ZeroWhenEmpty
    /\ (IsFinancial \/ IsSales \/ IsCustomer) => ~resp.raised
    /\ (IsCustomer /\ EmptyWindow) =>
          /\ resp.value.new_customers = 0
          /\ resp.value.active_customers = 0
          /\ resp.value.customer_segments = <<>>

\* an answered sales request on a window whose only invoice is unpaid
C16_Witness ==
    /\ IsSales
    /\ req.failAt = 0
    /\ InvoicesOf(req.user_id, req.start_date, req.end_date) # {}
    /\ PaidOf(req.user_id, req.start_date, req.end_date) = {}
    /\ ZeroSales(resp.value)

\* C17 as stated: profit_margin is 85.0 in every FinancialMetrics,
\* conversion_rate 75.0 in every SalesMetrics, customer_retention_rate 90.0
\* and churn_rate 5.0 in every CustomerMetrics the calculators return.
C17_Original ==
    /\ IsFinancial => resp.value.profit_margin = <<85, 1>>
    /\ IsSales => resp.value.conversion_rate = <<75, 1>>
    /\ IsCustomer =>
          /\ resp.value.customer_retention_rate = <<90, 1>>
          /\ resp.value.churn_rate = <<5, 1>>

\* the store answers all four queries of get_customer_metrics
FourQueriesAnswered == req.failAt = 0 \/ req.failAt > 4

\* C17 amended: the placeholders are constants of every record the
\* calculators compute, and zero in the default record they return
\* instead: profit_margin is 85.0 when the first query is answered with at
\* least one invoice of the window and 0 otherwise, conversion_rate 75.0
\* when it is answered with at least one paid invoice and 0 otherwise,
\* customer_retention_rate and churn_rate 90.0 and 5.0 when the store
\* answers all four queries and 0 otherwise.
C17_PlaceholderConstants ==
    /\ IsFinancial =>
          resp.value.profit_margin =
              IF FirstQueryAnswered
                 /\ InvoicesOf(req.user_id, req.start_date, req.end_date) # {}
              THEN <<85, 1>> ELSE <<0, 1>>
    /\ IsSales =>
          resp.value.conversion_rate =
              IF FirstQueryAnswered
                 /\ PaidOf(req.user_id, req.start_date, req.end_date) # {}
              THEN <<75, 1>> ELSE <<0, 1>>
    /\ IsCustomer =>
          /\ resp.value.customer_retention_rate =
                IF FourQueriesAnswered THEN <<90, 1>> ELSE <<0, 1>>
          /\ resp.value.churn_rate =
                IF FourQueriesAnswered THEN <<5, 1>> ELSE <<0, 1>>

\* a customer record computed for a user with no customer and no invoice
C17_Witness ==
    /\ IsCustomer
    /\ req.failAt = 0
    /\ resp.value.total_customers = 0
    /\ resp.value.customer_retention_rate = <<90, 1>>
    /\ resp.value.churn_rate = <<5, 1>>

----------------------------------------------------------------------------
(* Claims on the overview and the dashboard (SpecOverview)                 *)

IsOverview == req.op = "overview"
IsDashboard == req.op = "dashboard"

\* C18 as stated: a store query raising during an overview or dashboard
\* computation is fatal to the request: the caller receives a failure,
\* never a successful zero-valued or empty result.
C18_Original ==
    /\ (IsOverview /\ (req.failAt # 0 \/ req.salesFailAt # 0 \/ req.customerFailAt # 0))
          => resp.raised
    /\ (IsDashboard /\ req.failAt # 0) => resp.raised

\* which sub-calculator ends in its except clause: the financial and the
\* sales calculator when their first query raises (their later queries are
\* caught by the growth and trend routines), the customer calculator when
\* any of its four queries raises
FinancialFails == req.failAt = 1
SalesFails == req.salesFailAt = 1
CustomerFails == req.customerFailAt \in 1..4
FinancialAnswered == req.failAt = 0
SalesAnswered == req.salesFailAt = 0
CustomerAnswered == req.customerFailAt = 0

ExactlyOneFails ==
    \/ FinancialFails /\ SalesAnswered /\ CustomerAnswered
    \/ FinancialAnswered /\ SalesFails /\ CustomerAnswered
    \/ FinancialAnswered /\ SalesAnswered /\ CustomerFails

\* C19: when exactly one of the three sub-calculators fails, the overview
\* is returned with the default record in its place and the other two
\* records as computed with the store answering, and the insights,
\* recommendations and indicators follow from that mix (a defaulted
\* financial record gives the low-collection insight, no recommendation and
\* no good financial indicator; a defaulted customer record gives no
\* acquisition insight and stable customer growth).
C19_DegradedOverview ==
    (IsOverview /\ ExactlyOneFails) =>
        LET o == resp.value
            u == req.user_id
            s == req.start_date
            e == req.end_date
        IN  /\ ~resp.raised
            /\ IF FinancialFails THEN ZeroFinancial(o.financial_metrics)
               ELSE o.financial_metrics = GetFinancialMetrics(u, s, e, 0)
            /\ IF SalesFails THEN ZeroSales(o.sales_metrics)
               ELSE o.sales_metrics = GetSalesMetrics(u, s, e, 0)
            /\ IF CustomerFails THEN ZeroCustomer(o.customer_metrics)
               ELSE o.customer_metrics = GetCustomerMetrics(u, s, e, 0)
            /\ FinancialFails =>
                  /\ o.key_insights[1] =
                        <<"Collection rate is low at", 0,
                          "% - improve payment collection">>
                  /\ o.recommendations = <<>>
                  /\ o.performance_indicators.revenue_health = "needs_attention"
                  /\ o.performance_indicators.cash_flow = "needs_attention"
                  /\ o.performance_indicators.business_efficiency = "average"
            /\ (\E i \in DOMAIN o.key_insights : o.key_insights[i][1] = "Acquired")
                  <=> (~CustomerFails /\ NewCustomersOf(u, s, e) # {})
            /\ o.performance_indicators.customer_growth =
                  IF ~CustomerFails /\ NewCustomersOf(u, s, e) # {}
                  THEN "good" ELSE "stable"

\* the customer calculator alone fails on a window with paid revenue
C19_Witness ==
    /\ IsOverview
    /\ FinancialAnswered /\ SalesAnswered /\ CustomerFails
    /\ resp.value.financial_metrics.total_revenue[1] > 0
    /\ resp.value.sales_metrics.sales_count > 0
    /\ ZeroCustomer(resp.value.customer_metrics)
    /\ resp.value.recommendations =
          <<"Consider upselling to increase average invoice value">>

----------------------------------------------------------------------------
(* Claims on the writes of the reporting module (SpecReports)              *)

MetricsOperations == {"financial", "sales", "customer", "overview", "chart", "kpi"}

\* C20: a metrics operation leaves the invoices, customers and reports
\* collections as they were; generate_report leaves invoices and customers
\* as they were and, when it answers with a report, adds exactly one new
\* document owned by the requesting user after the existing reports, all
\* of them unmodified; when it answers with an error it writes nothing.
C20_ReadOnlyButReport ==
    [][/\ req'.op \in MetricsOperations =>
              /\ invoices' = invoices
              /\ customers' = customers
              /\ reports' = reports
       /\ req'.op = "generate_report" =>
              /\ invoices' = invoices
              /\ customers' = customers
              /\ IF resp'.raised THEN reports' = reports
                 ELSE /\ Len(reports') = Len(reports) + 1
                      /\ \A i \in DOMAIN reports : reports'[i] = reports[i]
                      /\ reports'[Len(reports')].user_id = req'.user_id
                      /\ \A i \in DOMAIN reports :
                            reports[i].id # reports'[Len(reports')].id]_vars

\* a report stored after the report of another user
C20_Witness ==
    /\ req.op = "generate_report"
    /\ ~resp.raised
    /\ Len(reports) = 2
    /\ reports[2].user_id = req.user_id
    /\ reports[1].user_id # req.user_id
    /\ reports[2] = resp.value.report

----------------------------------------------------------------------------
(* C21 *)

IsReporting == req.op \in ReportingOperations

\* C21: the result of a reporting operation for a user depends only on
\* that user's documents: whatever the other user creates, changes or
\* deletes after the request, the operation still returns on the store as
\* it is now what it returned then (any two stores that agree on the
\* user's documents are linked by such writes through the store holding
\* the user's documents alone).
C21_DependsOnOwnDocuments ==
    IsReporting =>
        resp.value = Reporting(req.op, req.user_id, req.start_date, req.end_date)

\* the other user's documents are gone or changed since the data set, and
\* the user has revenue
C21_Witness ==
    /\ IsReporting
    /\ req.op = "overview"
    /\ resp.value.financial_metrics.total_revenue[1] > 0
    /\ \A j \in DOMAIN invoices : invoices[j].user_id = req.user_id
    /\ \A j \in DOMAIN customers : customers[j].user_id = req.user_id

\* another user's write changed the store after the request
C21_WitnessForeignInvoice ==
    /\ IsReporting
    /\ req.op = "financial"
    /\ resp.value.total_invoices = 1
    /\ \E j \in DOMAIN invoices :
          invoices[j].user_id # req.user_id /\ invoices[j].discount_amount = 500


----------------------------------------------------------------------------
(* C22 *)

\* the five rules in the order of the claim, by the words their messages
\* begin with
InsightRules ==
    <<"Revenue grew by", "Revenue declined by", "Collection rate is healthy at",
      "Collection rate is low at", "Acquired">>

\* the threshold of a rule on the metrics of the overview
ThresholdHolds(rule, fm, cm) ==
    CASE rule = "Revenue grew by" -> FracLt(Num(10), fm.growth_rate)
      [] rule = "Revenue declined by" -> FracLt(fm.growth_rate, Num(-5))
      [] rule = "Collection rate is healthy at" -> FracLt(Num(80), fm.collection_rate)
      [] rule = "Collection rate is low at" -> FracLt(fm.collection_rate, Num(60))
      [] rule = "Acquired" -> cm.new_customers > 0

\* C22: the key insights of an overview are the messages of exactly the
\* rules whose threshold holds on the overview's own metrics (growth_rate
\* > 10, growth_rate < -5, collection_rate > 80, collection_rate < 60,
\* new_customers > 0), each once, in that order, whatever the other rules
\* do.
C22_KeyInsightRules ==
    IsOverview =>
        LET fm == resp.value.financial_metrics
            cm == resp.value.customer_metrics
            key_insights == resp.value.key_insights
        IN  [i \in DOMAIN key_insights |-> key_insights[i][1]]
                = SelectSeq(InsightRules, LAMBDA rule : ThresholdHolds(rule, fm, cm))

\* growth, healthy collection and acquisition fire together
C22_Witness ==
    /\ IsOverview
    /\ Len(resp.value.key_insights) = 3
    /\ resp.value.key_insights[1][1] = "Revenue grew by"
    /\ resp.value.key_insights[2][1] = "Collection rate is healthy at"
    /\ resp.value.key_insights[3][1] = "Acquired"

\* decline and low collection fire together, acquisition does not
C22_WitnessDecline ==
    /\ IsOverview
    /\ Len(resp.value.key_insights) = 2
    /\ resp.value.key_insights[1][1] = "Revenue declined by"
    /\ resp.value.key_insights[2][1] = "Collection rate is low at"


----------------------------------------------------------------------------
(* C23 *)

\* C23 as stated: in every reachable state of the store, after any
\* sequence of create_invoice, update_invoice, delete_invoice, bulk invoice
\* actions, create_customer and delete_customer requests, every stored
\* invoice's customer_id references an existing customer owned by the
\* invoice's user.
C23_Original ==
    \A j \in DOMAIN invoices :
        Exists(customers, invoices[j].customer_id, invoices[j].user_id)


----------------------------------------------------------------------------
(* C24 *)

C24_WitnessUpdatedDiscount ==
    \E j \in DOMAIN invoices :
        /\ invoices[j].discount_percentage = 0
        /\ invoices[j].discount_amount = 500
        /\ invoices[j].total_amount = 100


----------------------------------------------------------------------------
(* C25 *)

\* the growth of current over previous, as a percentage
GrowthOver(current, previous) ==
    IF previous = 0 THEN (IF current > 0 THEN Num(100) ELSE Num(0))
    ELSE Frac(100 * (current - previous), previous)

----------------------------------------------------------------------------
(* C28 *)

\* the sum of the sales values of the entries of a trend
RECURSIVE TrendSales(_)
TrendSales(trend) ==
    IF trend = <<>> THEN 0 ELSE Head(trend).sales + TrendSales(Tail(trend))

C28_WitnessUnpaid ==
    /\ IsOverview
    /\ req.failAt = 0
    /\ req.salesFailAt = 0
    /\ resp.value.financial_metrics.total_invoices = 2
    /\ resp.value.sales_metrics.sales_count = 1


----------------------------------------------------------------------------
(* C29 *)

SupportedChartTypes == {"revenue_trend", "invoice_status", "top_customers"}

\* C29 as stated: for each supported chart_type and every window with
\* start_date <= end_date, generate_chart_data on an answering store
\* returns a list of exactly one ChartData, also when the window holds no
\* invoice and when the user has no customer with paid revenue.
C29_Original ==
    (/\ IsChart
     /\ req.chart_type \in SupportedChartTypes
     /\ req.start_date <= req.end_date
     /\ req.failAt = 0) =>
        Len(resp.value) = 1


----------------------------------------------------------------------------
(* C30 *)

IsGenerateReport == req.op = "generate_report"

\* the window a request made on Wednesday 2024-01-03 resolves to
ResolvedWindow(r) ==
    CASE r.period = "custom" -> <<r.start_date, r.end_date>>
      [] r.period = "today" -> <<<<2024, 1, 3>>, <<2024, 1, 3>>>>
      [] r.period = "week" -> <<<<2024, 1, 1>>, <<2024, 1, 7>>>>
      [] r.period = "month" -> <<<<2024, 1, 1>>, <<2024, 1, 31>>>>

\* C30: a generate_report request with period custom and a missing
\* start_date or end_date is answered 400 and leaves the reports
\* collection as it was; a generate_report request that succeeds adds
\* exactly one report, whose user_id is the requesting user and whose
\* start_date and end_date are the resolved window.
C30_RejectsOrStoresWindow ==
    [][req'.op = "generate_report" =>
          /\ (/\ req'.period = "custom"
              /\ (req'.start_date = None \/ req'.end_date = None)) =>
                 /\ resp'.raised
                 /\ resp'.status_code = 400
                 /\ reports' = reports
          /\ ~resp'.raised =>
                 /\ reports' = Append(reports, reports'[Len(reports')])
                 /\ reports'[Len(reports')].user_id = req'.user_id
                 /\ reports'[Len(reports')].start_date = ResolvedWindow(req')[1]
                 /\ reports'[Len(reports')].end_date = ResolvedWindow(req')[2]]_vars

\* a week report: the explicit start date of the request is not the
\* window, Monday to Sunday is
C30_Witness ==
    /\ IsGenerateReport
    /\ ~resp.raised
    /\ req.period = "week"
    /\ req.start_date = <<2024, 1, 2>>
    /\ reports[Len(reports)].start_date = <<2024, 1, 1>>
    /\ reports[Len(reports)].end_date = <<2024, 1, 7>>

\* a custom request without an end date, refused
C30_WitnessRejected ==
    /\ IsGenerateReport
    /\ req.period = "custom"
    /\ req.start_date = <<2024, 1, 2>>
    /\ req.end_date = None
    /\ resp.raised
    /\ resp.status_code = 400

\* a custom report stored with its explicit dates
C30_WitnessCustom ==
    /\ IsGenerateReport
    /\ ~resp.raised
    /\ req.period = "custom"
    /\ reports[Len(reports)].start_date = <<2024, 1, 2>>
    /\ reports[Len(reports)].user_id = "u2"


----------------------------------------------------------------------------
(* C26 *)

\* the positions of the documents of user u in a collection
OwnedBy(collection, u) == {j \in DOMAIN collection : collection[j].user_id = u}

\* a context whose counts and sums are those of the documents of user u
ContextOfUser(context, u) ==
    /\ context.total_customers = Cardinality(OwnedBy(customers, u))
    /\ context.total_invoices = Cardinality(OwnedBy(invoices, u))
    /\ context.total_revenue =
           SumOver({j \in OwnedBy(invoices, u) :
                       invoices[j].payment_status = "paid"}, invoices)

\* the entries are kept under the users' keys, none is dated after the
\* clock, and a cached or returned context counts the customers of its own
\* user (the customers do not change here, and no two users have as many)
C26_OwnContext ==
    /\ \A k \in DOMAIN business_context_cache :
           \E u \in Users :
               /\ k = <<"business_context_", u>>
               /\ business_context_cache[k].timestamp <= utcnow
               /\ business_context_cache[k].data.total_customers =
                      Cardinality(OwnedBy(customers, u))
    /\ (req.op = "get_business_context" /\ req.pc = "done") =>
           \/ resp.value = DefaultBusinessContext
           \/ resp.value.total_customers =
                  Cardinality(OwnedBy(customers, req.user_id))

\* a step of get_business_context: the call begins with a hit or a miss,
\* or the call that missed completes
C26_CallStep ==
    (req'.op = "get_business_context" /\ req' # req) =>
        LET u == req'.user_id
            key == <<"business_context_", u>>
            fresh == /\ key \in DOMAIN business_context_cache
                     /\ utcnow - business_context_cache[key].timestamp < 300
        IN  IF ~(req.op = "get_business_context" /\ req.pc = "reading")
            THEN /\ business_context_cache' = business_context_cache
                 /\ fresh => /\ req'.pc = "done"
                             /\ resp' = Returned(business_context_cache[key].data)
                 /\ ~fresh => req'.pc = "reading"
            ELSE /\ u = req.user_id
                 /\ req'.pc = "done"
                 /\ \A k \in DOMAIN business_context_cache \ {key} :
                        /\ k \in DOMAIN business_context_cache'
                        /\ business_context_cache'[k] = business_context_cache[k]
                 /\ DOMAIN business_context_cache' \subseteq
                        DOMAIN business_context_cache \cup {key}
                 /\ req.failAt # 1 =>
                        /\ ContextOfUser(resp'.value, u)
                        /\ key \in DOMAIN business_context_cache'
                        /\ business_context_cache'[key] =
                               [data |-> resp'.value,
                                timestamp |-> req.current_time]
                 /\ req.failAt = 1 =>
                        /\ resp'.value = DefaultBusinessContext
                        /\ business_context_cache' = business_context_cache

\* C26: the business-context cache is keyed by user and expires after 300
\* seconds.  A call of get_business_context(u) returns cached data only
\* when the entry under u's own key is less than 300 seconds old, and that
\* entry was written by a call for u with the time that call began at;
\* otherwise the call reads the store and, when the store answers,
\* replaces u's entry and no other.  No call returns a context computed
\* for another user.
C26_KeyedByUserAndExpires == []C26_OwnContext /\ [][C26_CallStep]_vars

\* u2 is served its cached context, 299 seconds old, after u1's context
\* was cached as well
C26_Witness ==
    /\ req.op = "get_business_context"
    /\ req.pc = "done"
    /\ req.user_id = "u2"
    /\ utcnow = 299
    /\ <<"business_context_", "u1">> \in DOMAIN business_context_cache
    /\ <<"business_context_", "u2">> \in DOMAIN business_context_cache
    /\ business_context_cache[<<"business_context_", "u2">>].timestamp = 0
    /\ resp.value = business_context_cache[<<"business_context_", "u2">>].data
    /\ resp.value.total_customers = 2

\* the entry of time 0 is 300 seconds old and is replaced
C26_WitnessExpired ==
    /\ req.op = "get_business_context"
    /\ req.pc = "done"
    /\ req.current_time = 300
    /\ req.failAt = 0
    /\ business_context_cache[<<"business_context_", req.user_id>>].timestamp = 300

\* a cached context that the store has moved away from is served
C26_WitnessStale ==
    /\ req.op = "get_business_context"
    /\ req.pc = "done"
    /\ req.user_id = "u1"
    /\ req.failAt = 0
    /\ req.current_time > 0
    /\ business_context_cache[<<"business_context_", "u1">>].timestamp = 0
    /\ resp.value.total_revenue = 0
    /\ \E j \in DOMAIN invoices :
           invoices[j].user_id = "u1" /\ invoices[j].payment_status = "paid"

\* a call that began at time 0 and completed later: its entry carries
\* time 0
C26_WitnessSlowCall ==
    /\ req.op = "get_business_context"
    /\ req.pc = "done"
    /\ req.current_time = 0
    /\ utcnow > 0
    /\ <<"business_context_", req.user_id>> \in DOMAIN business_context_cache
    /\ business_context_cache[<<"business_context_", req.user_id>>].timestamp = 0
    /\ resp.value.total_revenue > 0
    /\ req.user_id = "u1"


----------------------------------------------------------------------------
(* C27 *)

\* C27 as stated: every CustomerMetrics record returned by
\* get_customer_metrics has new_customers <= total_customers, also when
\* create_customer and delete_customer requests of the same user run
\* between the calculator's store reads.  A customer created between the
\* first and the second read is counted as new and not in the total.
C27_Original ==
    (req.op = "customer" /\ req.pc = "done") =>
        resp.value.new_customers <= resp.value.total_customers


====
